---- MODULE Spec2Model ----
(***************************************************************************)
(* Model of the flight-ingestor alerter (src/main.go).  The file holds two *)
(* programs: the multi-channel alerter (lines 1-651: mainRadiusLoop,       *)
(* processRadiusAlerts, cleanupRadiusState, getActualCoords) and the no-DB *)
(* alerter (lines 653-1178: mainLoop, fetchAndProcessAircraft,             *)
(* processAircraftAlerts, cleanupOldState).  The variable `variant` says   *)
(* which of the two programs is running.                                   *)
(*                                                                         *)
(* Numbers.  A Go float64 is modelled as an integer count of hundredths    *)
(* (35.78 degrees is 3578, 2000.4 feet is 200040, 5.0 nm is 500).  Time is *)
(* an integer count of minutes; 0 is Go's zero time.Time.                  *)
(***************************************************************************)
EXTENDS Integers, Sequences, FiniteSets, TLC

VARIABLES
    variant,            \* "multichannel" (lines 1-651) or "nodb" (lines 653-1178)
    globalRadiusState,  \* map hex -> RadiusAircraftState / AircraftState
    globalWatchlist,    \* map hex -> WatchlistEntry
    now,                \* the wall clock read by time.Now(), in minutes
    pc,                 \* where the poller goroutine stands in its loop
    remaining,          \* aircraft of the decoded batch not yet evaluated
    ev,                 \* the locals of the evaluator call that just returned: ac, seen,
                        \* onWatchlist, details, and how its lookup and its POST went
    alerts,             \* the webhook posts made by the evaluator call that just returned
    sent,               \* history: per hex, the watchlist and military alerts posted
                        \* since its alert state was created
    lastOutside,        \* history: the hexes whose latest sighting was outside the radius
    coordsIn,           \* getActualCoords: the aircraft it is applied to
    coordsOut,          \* getActualCoords: what it returned
    apiResponse,        \* getAircraftDetails: the decoded adsbdb payload
    detail,             \* getAircraftDetails: the AircraftDetail it returned
    reaps,              \* history: the runs of the reaper in the poll cycle under way
    overran,            \* history: the clock advanced while the latest batch was in process
    wlpc,               \* where the manageWatchlist goroutine stands in loadWatchlistFromCSV
    wlBody,             \* the body its latest http.Get was answered with
    wlLocals,           \* its locals: records, newWatchlist and the loop index i
    watchlistMutex,     \* the RWMutex: held by the writer, number of readers
    rdpc,               \* where an evaluator stands in its watchlist lookup
    observed,           \* the map that lookup indexed
    wlBefore,           \* history: globalWatchlist when the latest refresh began
    detailStore,        \* the persistent backing store of the enrichment cache
    remoteCalls,        \* the calls made to adsbdb by cached lookups
    lookedUp,           \* the identifier of the latest cached lookup
    lookups,            \* the cached lookups made
    stpc,               \* where the evaluator call under way stands: "idle" outside a call
    locals,             \* the locals of that call, or of the latest one: ac, seen,
                        \* currentState, onWatchlist, the alert type, details
    trace,              \* history: what the evaluator call under way, or the latest one,
                        \* has called or written, in order
    failed,             \* history: the failures met in the poll cycle under way
    failedBefore,       \* history: the failures met in the poll cycle before it
    accessLog,          \* history: <<goroutine, state map>> for every read and write made
    globalNationwideState,  \* map hex -> time of the last special_military alert
    nwpc,               \* where the mainNationwideLoop goroutine stands
    nwLocals,           \* its locals: the index of acType, the aircraft of data.Aircraft
                        \* still to come, ac.Hex, lastAlertTime, seen, and how the
                        \* lookup and the POST for ac went
    lastDispatch        \* history: per hex, the time of the latest special_military POST

vars == <<variant, globalRadiusState, globalWatchlist, now, pc, remaining, ev,
          alerts, sent, lastOutside, coordsIn, coordsOut, apiResponse, detail,
          reaps, overran, wlpc, wlBody, wlLocals, watchlistMutex, rdpc, observed,
          wlBefore, detailStore, remoteCalls, lookedUp, lookups, stpc, locals, trace,
          failed, failedBefore, accessLog, globalNationwideState, nwpc, nwLocals,
          lastDispatch>>

histVars == <<sent, lastOutside>>
coordsVars == <<coordsIn, coordsOut>>
detailVars == <<apiResponse, detail>>
cycleVars == <<reaps, overran>>
wlVars == <<wlpc, wlBody, wlLocals, watchlistMutex, rdpc, observed, wlBefore>>
cacheVars == <<detailStore, remoteCalls, lookedUp, lookups>>
stepVars == <<stpc, locals, trace, failed, failedBefore>>
nwVars == <<globalNationwideState, nwpc, nwLocals, lastDispatch>>
taskVars == <<stepVars, nwVars, accessLog>>
pollerVars == <<variant, globalRadiusState, now, pc, remaining, ev, alerts, sent,
                lastOutside, reaps, overran>>

(***************************************************************************)
(* Bounds of the model and constants of the program.                       *)
(***************************************************************************)
\* the clock stops advancing at MaxTime minutes
MaxTime == 32
\* a decoded feed holds at most MaxBatch aircraft
MaxBatch == 2
\* the history counters of `sent` stop counting at MaxSent
MaxSent == 2
\* the cached lookups stop at MaxLookups
MaxLookups == 4
\* the loop over specialAircraftTypes is taken over its first MaxTypes types
MaxTypes == 2
\* the clock of mainNationwideLoop stops advancing at MaxNationwideTime minutes
MaxNationwideTime == 2883

\* cleanupRadiusState: cutoff := time.Now().Add(-30 * time.Minute)
stateTTL == 30
\* proximityRadiusNM = 5.0
proximityRadiusNM == 500
\* proximityAltitudeFT = 2000.0
proximityAltitudeFT == 200000

\* the zero time.Time
ZeroTime == 0

(***************************************************************************)
(* Values of Go's `any` as encoding/json decodes them: a JSON number is a  *)
(* float64, a JSON string a string, anything else (null, absent, bool) is  *)
(* neither.                                                                *)
(***************************************************************************)
F(x) == [t |-> "float64", f |-> x, s |-> ""]
S(x) == [t |-> "string", f |-> 0, s |-> x]
Nil  == [t |-> "nil", f |-> 0, s |-> ""]

(***************************************************************************)
(* strconv.ParseFloat on the texts the model feeds it.  NumericTexts are   *)
(* the texts that are decimal numbers; every other text is a syntax error. *)
(***************************************************************************)
NumericTexts == {"0", "-100", "1", "1500", "2000", "2001", "2002", "2500",
                 "35.78", "36.00", "-78.50"}

TextValue(s) ==
    CASE s = "0"      -> 0
      [] s = "-100"   -> -10000
      [] s = "1"      -> 100
      [] s = "1500"   -> 150000
      [] s = "2000"   -> 200000
      [] s = "2001"   -> 200100
      [] s = "2002"   -> 200200
      [] s = "2500"   -> 250000
      [] s = "35.78"  -> 3578
      [] s = "36.00"  -> 3600
      [] s = "-78.50" -> -7850
      [] OTHER        -> 0

ParseFloat(s) ==
    IF s \in NumericTexts
    THEN [f |-> TextValue(s), err |-> FALSE]
    ELSE [f |-> 0, err |-> TRUE]

(***************************************************************************)
(* fmt.Sprintf("%.0f", v): v rounded to a whole number, ties to even, in   *)
(* decimal.                                                                *)
(***************************************************************************)
RoundHalfEven(x) ==
    LET q == x \div 100
        r == x % 100
    IN  IF r < 50 THEN q
        ELSE IF r > 50 THEN q + 1
        ELSE IF q % 2 = 0 THEN q ELSE q + 1

formatAltitudeString(alt) ==
    CASE alt.t = "float64" -> ToString(RoundHalfEven(alt.f))
      [] alt.t = "string"  -> alt.s
      [] OTHER             -> "N/A"

parseFloat(val) ==
    CASE val.t = "float64" -> val.f
      [] val.t = "string"  -> IF ParseFloat(val.s).err THEN 0 ELSE ParseFloat(val.s).f
      [] OTHER             -> 0

\* mutant: a pair counts as present when either component is non-zero
getActualCoords_either(ac) ==
    LET lat1 == parseFloat(ac.Lat)
        lon1 == parseFloat(ac.Lon)
        lat2 == parseFloat(ac.LastPos.Lat)
        lon2 == parseFloat(ac.LastPos.Lon)
    IN  IF lat1 # 0 \/ lon1 # 0
        THEN [lat |-> lat1, lon |-> lon1, hasCoords |-> TRUE]
        ELSE IF lat2 # 0 \/ lon2 # 0
        THEN [lat |-> lat2, lon |-> lon2, hasCoords |-> TRUE]
        ELSE [lat |-> 0, lon |-> 0, hasCoords |-> FALSE]

getActualCoords(ac) ==
    LET lat1 == parseFloat(ac.Lat)
        lon1 == parseFloat(ac.Lon)
        lat2 == parseFloat(ac.LastPos.Lat)
        lon2 == parseFloat(ac.LastPos.Lon)
    IN  IF lat1 # 0 /\ lon1 # 0
        THEN [lat |-> lat1, lon |-> lon1, hasCoords |-> TRUE]
        ELSE IF lat2 # 0 /\ lon2 # 0
        THEN [lat |-> lat2, lon |-> lon2, hasCoords |-> TRUE]
        ELSE [lat |-> 0, lon |-> 0, hasCoords |-> FALSE]

(***************************************************************************)
(* haversine(apiLat, apiLng, lat, lon) in hundredths of a nautical mile,   *)
(* for the home point (35.740971, -78.498878) and the positions the feeds  *)
(* of the model report.  The values are the formula of lines 333-340       *)
(* evaluated at these points (earthRadiusNM = 3440.065).                   *)
(***************************************************************************)
haversine(lat, lon) ==
    CASE lat = 3578 /\ lon = -7850 -> 234
      [] lat = 3600 /\ lon = -7850 -> 1555
      [] lat = 3578 /\ lon = 0     -> 370947
      [] lat = 3600 /\ lon = 0     -> 370380
      [] lat = 0    /\ lon = -7850 -> 214590
      [] OTHER                     -> 484445

(***************************************************************************)
(* The alert state of one aircraft and the evaluator's triggers.           *)
(***************************************************************************)
\* the zero value of RadiusAircraftState / AircraftState
ZeroState ==
    [LastSquawk |-> "", MilAlerted |-> FALSE, WatchlistAlerted |-> FALSE,
     ProximityAlerted |-> FALSE, LastSeen |-> ZeroTime]

\* currentState, seen := globalRadiusState[hex]
lookupState(hex) ==
    IF hex \in DOMAIN globalRadiusState
    THEN [seen |-> TRUE, currentState |-> globalRadiusState[hex]]
    ELSE [seen |-> FALSE, currentState |-> ZeroState]

isEmergency(squawk) == squawk = "7700" \/ squawk = "7600" \/ squawk = "7500"

\* mutant: the latch is not consulted
watchlistFires_noLatch(seen, currentState) == TRUE

\* if !seen || !currentState.WatchlistAlerted
watchlistFires(seen, currentState) == ~seen \/ ~currentState.WatchlistAlerted

\* mutant: only a change from a non-emergency code counts
emergencyFires_fromNormalOnly(seen, currentState, squawk) ==
    ~seen \/ ~isEmergency(currentState.LastSquawk)

\* if !seen || currentState.LastSquawk != squawk
emergencyFires(seen, currentState, squawk) == ~seen \/ currentState.LastSquawk # squawk

\* if !seen || !currentState.MilAlerted
milFires(seen, currentState) == ~seen \/ ~currentState.MilAlerted

\* if !seen || !currentState.ProximityAlerted
proximityFires(seen, currentState) == ~seen \/ ~currentState.ProximityAlerted

\* distanceNM <= proximityRadiusNM
inRadius(lat, lon) == haversine(lat, lon) <= proximityRadiusNM

\* altStr := formatAltitudeString(ac.AltBaro); altitudeFT, err := strconv.ParseFloat(altStr, 64)
\* err == nil && altitudeFT > 0 && altitudeFT <= proximityAltitudeFT
inAltitudeBand(AltBaro) ==
    LET altitudeFT == ParseFloat(formatAltitudeString(AltBaro))
    IN  ~altitudeFT.err /\ altitudeFT.f > 0 /\ altitudeFT.f <= proximityAltitudeFT

\* mutant: the code is not recorded
stamp_noSquawk(currentState, squawk, t) == [currentState EXCEPT !.LastSeen = t]

\* currentState.LastSquawk = squawk; currentState.LastSeen = time.Now()
stamp(currentState, squawk, t) ==
    [currentState EXCEPT !.LastSquawk = squawk, !.LastSeen = t]

\* Trigger 1: the watchlist branch
watchlistTrigger(ac, seen, currentState, t) ==
    IF watchlistFires(seen, currentState)
    THEN [alerts |-> <<"watchlist">>,
          state  |-> stamp([currentState EXCEPT !.WatchlistAlerted = TRUE], ac.Squawk, t)]
    ELSE [alerts |-> <<>>, state |-> stamp(currentState, ac.Squawk, t)]

\* Trigger 2: the emergency squawk branch
emergencyTrigger(ac, seen, currentState, t) ==
    IF emergencyFires(seen, currentState, ac.Squawk)
    THEN [alerts |-> <<"emergency">>, state |-> stamp(currentState, ac.Squawk, t)]
    ELSE [alerts |-> <<>>, state |-> stamp(currentState, ac.Squawk, t)]

\* mutant: the latch is not set on firing
milTrigger_noLatch(ac, seen, currentState, t) ==
    IF milFires(seen, currentState)
    THEN [alerts |-> <<"military">>, state |-> stamp(currentState, ac.Squawk, t)]
    ELSE [alerts |-> <<>>, state |-> stamp(currentState, ac.Squawk, t)]

\* Trigger 3: the military branch
milTrigger(ac, seen, currentState, t) ==
    IF milFires(seen, currentState)
    THEN [alerts |-> <<"military">>,
          state  |-> stamp([currentState EXCEPT !.MilAlerted = TRUE], ac.Squawk, t)]
    ELSE [alerts |-> <<>>, state |-> stamp(currentState, ac.Squawk, t)]

\* mutant: without a fix the latch is left as it was
proximityTrigger_keepLatchWithoutFix(ac, seen, currentState, t, hasCoords, lat, lon) ==
    IF hasCoords /\ inRadius(lat, lon) /\ inAltitudeBand(ac.AltBaro)
    THEN IF proximityFires(seen, currentState)
         THEN [alerts |-> <<"proximity">>,
               state  |-> stamp([currentState EXCEPT !.ProximityAlerted = TRUE], ac.Squawk, t)]
         ELSE [alerts |-> <<>>, state |-> stamp(currentState, ac.Squawk, t)]
    ELSE IF ~hasCoords
    THEN [alerts |-> <<>>, state |-> stamp(currentState, ac.Squawk, t)]
    ELSE [alerts |-> <<>>,
          state  |-> stamp([currentState EXCEPT !.ProximityAlerted = FALSE], ac.Squawk, t)]

\* Trigger 4: the proximity branch, given the position the caller resolved
proximityTrigger(ac, seen, currentState, t, hasCoords, lat, lon) ==
    IF hasCoords /\ inRadius(lat, lon) /\ inAltitudeBand(ac.AltBaro)
    THEN IF proximityFires(seen, currentState)
         THEN [alerts |-> <<"proximity">>,
               state  |-> stamp([currentState EXCEPT !.ProximityAlerted = TRUE], ac.Squawk, t)]
         ELSE [alerts |-> <<>>, state |-> stamp(currentState, ac.Squawk, t)]
    ELSE [alerts |-> <<>>,
          state  |-> stamp([currentState EXCEPT !.ProximityAlerted = FALSE], ac.Squawk, t)]

\* a float64 field of the no-DB Aircraft struct: absent or null decodes to 0
float64Field(val) == IF val.t = "float64" THEN val.f ELSE 0

\* mutant: a watchlist hit suppressed by its latch falls through to the next trigger
evalRadius_fallThrough(ac, seen, currentState, onWatchlist, t) ==
    LET c == getActualCoords(ac)
    IN  IF onWatchlist /\ watchlistFires(seen, currentState)
        THEN watchlistTrigger(ac, seen, currentState, t)
        ELSE IF isEmergency(ac.Squawk) THEN emergencyTrigger(ac, seen, currentState, t)
        ELSE IF ac.Mil THEN milTrigger(ac, seen, currentState, t)
        ELSE proximityTrigger(ac, seen, currentState, t, c.hasCoords, c.lat, c.lon)

\* the body of processRadiusAlerts (multi-channel program)
evalRadius(ac, seen, currentState, onWatchlist, t) ==
    LET c == getActualCoords(ac)
    IN  IF onWatchlist THEN watchlistTrigger(ac, seen, currentState, t)
        ELSE IF isEmergency(ac.Squawk) THEN emergencyTrigger(ac, seen, currentState, t)
        ELSE IF ac.Mil THEN milTrigger(ac, seen, currentState, t)
        ELSE proximityTrigger(ac, seen, currentState, t, c.hasCoords, c.lat, c.lon)

\* the body of processAircraftAlerts (no-DB program): no coordinate resolver
evalAircraft(ac, seen, currentState, onWatchlist, t) ==
    IF onWatchlist THEN watchlistTrigger(ac, seen, currentState, t)
    ELSE IF isEmergency(ac.Squawk) THEN emergencyTrigger(ac, seen, currentState, t)
    ELSE IF ac.Mil THEN milTrigger(ac, seen, currentState, t)
    ELSE proximityTrigger(ac, seen, currentState, t, TRUE,
                          float64Field(ac.Lat), float64Field(ac.Lon))

\* globalRadiusState[hex] = currentState
putState(hex, st) ==
    [h \in DOMAIN globalRadiusState \cup {hex} |->
        IF h = hex THEN st ELSE globalRadiusState[h]]

\* mutant: "not after the cutoff" instead of "before the cutoff"
isStale_inclusive(st, t) == st.LastSeen # ZeroTime /\ st.LastSeen <= t - stateTTL

\* mutant: After instead of Before
isStale_after(st, t) == st.LastSeen # ZeroTime /\ st.LastSeen > t - stateTTL

\* cleanupRadiusState / cleanupOldState at time t
isStale(st, t) == st.LastSeen # ZeroTime /\ st.LastSeen < t - stateTTL

\* mutant: an entry not stamped at the time of the run is taken for a zero-time entry
cleanupState_resetUnstamped(t) ==
    [h \in {k \in DOMAIN globalRadiusState : ~isStale(globalRadiusState[k], t)} |->
        IF globalRadiusState[h].LastSeen # t
        THEN [ZeroState EXCEPT !.LastSeen = t]
        ELSE globalRadiusState[h]]

\* the map after the two loops of the reaper: a zero-time entry is replaced by a
\* fresh state, a stale one is deleted
cleanupState(t) ==
    [h \in {k \in DOMAIN globalRadiusState : ~isStale(globalRadiusState[k], t)} |->
        IF globalRadiusState[h].LastSeen = ZeroTime
        THEN [ZeroState EXCEPT !.LastSeen = t]
        ELSE globalRadiusState[h]]

(***************************************************************************)
(* The watchlist: loadWatchlistFromCSV parses the CSV records into a new   *)
(* map and swaps it in under watchlistMutex.                               *)
(***************************************************************************)
csvHeader == <<"$ICAO", "$Registration", "$Operator", "$Type", "$ICAO Type", "#CMPG", "$Tag 1">>
csvRowFull == <<"ae01ce", "92-9000", "USAF", "VC-25A", "B742", "Gov", "Air Force One">>
csvRowShort == <<"a1b2c3", "N123AB">>

\* the bodies the watchlist URL serves, as lists of rows of fields
CsvSources == {<<csvHeader>>, <<csvHeader, csvRowFull>>, <<csvHeader, csvRowFull, csvRowShort>>}

\* records, err := reader.ReadAll(): a csv.Reader made by csv.NewReader has
\* FieldsPerRecord 0, so every record must have as many fields as the first one
readAll(body) ==
    IF \E i \in 1..Len(body) : Len(body[i]) # Len(body[1])
    THEN [records |-> <<>>, err |-> TRUE]
    ELSE [records |-> body, err |-> FALSE]

\* for i, row := range records { if i == 0 {continue}; if len(row) > 6 {...} }
parseWatchlist(records) ==
    LET kept == {i \in 2..Len(records) : Len(records[i]) > 6}
        last(icao) == CHOOSE i \in kept :
                         /\ records[i][1] = icao
                         /\ \A j \in kept : records[j][1] = icao => j <= i
    IN  [icao \in {records[i][1] : i \in kept} |->
            [ICAO         |-> records[last(icao)][1],
             Registration |-> records[last(icao)][2],
             PlaneType    |-> records[last(icao)][5],
             Note         |-> records[last(icao)][7]]]

\* one turn of that loop, on the record at index i (1 is the header)
addRow(wl, i, row) ==
    IF i = 1 \/ Len(row) <= 6 THEN wl
    ELSE [h \in DOMAIN wl \cup {row[1]} |->
            IF h = row[1]
            THEN [ICAO |-> row[1], Registration |-> row[2], PlaneType |-> row[5],
                  Note |-> row[7]]
            ELSE wl[h]]

\* the locals of loadWatchlistFromCSV outside a call
noLocals == [records |-> <<>>, newWatchlist |-> parseWatchlist(<<>>), i |-> 1]

\* the refresher waits for its ticker and no evaluator is in a lookup
watchlistIdle ==
    /\ wlpc = "tick"
    /\ wlBody = <<>>
    /\ wlLocals = noLocals
    /\ watchlistMutex = [writer |-> FALSE, readers |-> 0]
    /\ rdpc = "out"
    /\ observed = <<>>
    /\ wlBefore = parseWatchlist(<<>>)

(***************************************************************************)
(* The feed: the aircraft a decoded batch may hold.                        *)
(***************************************************************************)
Hexes == {"a1b2c3", "ae01ce"}
Squawks == {"1200", "7600", "7700"}
NoPos == [Lat |-> Nil, Lon |-> Nil]
\* where the feed puts an aircraft: its altitude and its position fields
Sightings ==
    {[AltBaro |-> F(150000), Lat |-> F(3578), Lon |-> F(-7850), LastPos |-> NoPos],
     [AltBaro |-> F(200040), Lat |-> F(3578), Lon |-> F(-7850), LastPos |-> NoPos],
     [AltBaro |-> S("ground"), Lat |-> F(3578), Lon |-> F(-7850), LastPos |-> NoPos],
     [AltBaro |-> F(150000), Lat |-> F(3600), Lon |-> F(-7850), LastPos |-> NoPos],
     [AltBaro |-> F(150000), Lat |-> Nil, Lon |-> Nil,
      LastPos |-> [Lat |-> F(3578), Lon |-> F(-7850)]],
     [AltBaro |-> F(150000), Lat |-> Nil, Lon |-> Nil, LastPos |-> NoPos]}

mkAircraft(h, q, m, g) ==
    [Hex |-> h, Squawk |-> q, Mil |-> m, AltBaro |-> g.AltBaro,
     Lat |-> g.Lat, Lon |-> g.Lon, LastPos |-> g.LastPos]

\* a sighting at 1500 ft with a primary position, inside or outside the radius
InOrOut == {s \in Sightings : s.AltBaro = F(150000) /\ s.Lat # Nil}

\* "ae01ce" is reported as a plain aircraft at every sighting and, in or out of the
\* zone, with every code and flag; "a1b2c3" as a plain aircraft in or out of the
\* zone.  (Altitude and position are read by the proximity branch only.)
Aircraft ==
    {mkAircraft("ae01ce", "1200", FALSE, g) : g \in Sightings}
    \cup {mkAircraft("ae01ce", q, m, g) : q \in Squawks, m \in BOOLEAN, g \in InOrOut}
    \cup {mkAircraft("a1b2c3", "1200", FALSE, g) : g \in InOrOut}

NoneSent == [watchlist |-> 0, military |-> 0]

\* nothing stored, nothing looked up
cacheIdle ==
    /\ detailStore = [h \in {} |-> NoneSent]
    /\ remoteCalls = 0
    /\ lookedUp = ""
    /\ lookups = 0

\* no evaluator call is under way and nothing has failed or touched a state map
stepsIdle ==
    /\ stpc = "idle"
    /\ locals = <<>>
    /\ trace = <<>>
    /\ failed = {}
    /\ failedBefore = {}
    /\ accessLog = {}

\* var globalNationwideState = make(map[string]time.Time); the goroutine is at the
\* top of its loop over specialAircraftTypes
nationwideIdle ==
    /\ globalNationwideState = [h \in {} |-> ZeroTime]
    /\ nwpc = "get"
    /\ nwLocals = [acType |-> 1, remaining |-> 0, hex |-> "", lastAlertTime |-> ZeroTime,
                   seen |-> FALSE, lookup |-> "", delivery |-> ""]
    /\ lastDispatch = [h \in Hexes |-> ZeroTime]

\* the steps by which the clock is seen to advance
ClockSteps == {stateTTL, stateTTL + 1}

(***************************************************************************)
(* The adsbdb lookup and the Discord webhook, as the evaluators call them. *)
(***************************************************************************)
EmptyDetail ==
    [Hex |-> "", Registration |-> "", Airline |-> "", Owner |-> "",
     AircraftType |-> "", Note |-> "", ThumbnailURL |-> "", FullImageURL |-> ""]

\* mutant: the operator flag is ignored, the airline is always the owner
getAircraftDetails_airlineIsOwner(hex, resp) ==
    IF resp.Aircraft.Registration # ""
    THEN [EmptyDetail EXCEPT
            !.Hex = hex,
            !.Registration = resp.Aircraft.Registration,
            !.AircraftType = resp.Aircraft.Type,
            !.Owner = resp.Aircraft.Owner,
            !.ThumbnailURL = resp.Aircraft.ThumbnailURL,
            !.FullImageURL = resp.Aircraft.FullImageURL,
            !.Airline = resp.Aircraft.Owner]
    ELSE IF resp.Registration_flat # ""
    THEN [EmptyDetail EXCEPT
            !.Hex = hex,
            !.Registration = resp.Registration_flat,
            !.AircraftType = resp.Type_flat,
            !.Owner = resp.Owner_flat]
    ELSE [EmptyDetail EXCEPT !.Hex = hex]

\* lines 470-492: the multi-channel program maps the nested or the flat shape
getAircraftDetails(hex, resp) ==
    IF resp.Aircraft.Registration # ""
    THEN [EmptyDetail EXCEPT
            !.Hex = hex,
            !.Registration = resp.Aircraft.Registration,
            !.AircraftType = resp.Aircraft.Type,
            !.Owner = resp.Aircraft.Owner,
            !.ThumbnailURL = resp.Aircraft.ThumbnailURL,
            !.FullImageURL = resp.Aircraft.FullImageURL,
            !.Airline = IF resp.Aircraft.AirlineFlag # ""
                        THEN resp.Aircraft.AirlineFlag
                        ELSE resp.Aircraft.Owner]
    ELSE IF resp.Registration_flat # ""
    THEN [EmptyDetail EXCEPT
            !.Hex = hex,
            !.Registration = resp.Registration_flat,
            !.AircraftType = resp.Type_flat,
            !.Owner = resp.Owner_flat]
    ELSE [EmptyDetail EXCEPT !.Hex = hex]

\* lines 1089-1103: the no-DB program decodes and maps the nested shape only
getAircraftDetailsNoDB(hex, resp) ==
    [EmptyDetail EXCEPT
        !.Hex = hex,
        !.Registration = resp.Aircraft.Registration,
        !.AircraftType = resp.Aircraft.Type,
        !.Owner = resp.Aircraft.Owner,
        !.ThumbnailURL = resp.Aircraft.ThumbnailURL,
        !.FullImageURL = resp.Aircraft.FullImageURL,
        !.Airline = IF resp.Aircraft.AirlineFlag # ""
                    THEN resp.Aircraft.AirlineFlag
                    ELSE resp.Aircraft.Owner]

\* the payloads adsbdb may answer with
Payloads ==
    {[Aircraft |-> [Type |-> ty, Registration |-> reg, Owner |-> ow, AirlineFlag |-> fl,
                    ThumbnailURL |-> th, FullImageURL |-> th],
      Type_flat |-> fty, Registration_flat |-> freg, Owner_flat |-> fow] :
        ty \in {"", "B738"}, reg \in {"", "N123AB"}, ow \in {"", "Delta Air Lines"},
        fl \in {"", "DAL"}, th \in {"", "https://img/1.jpg"},
        fty \in {"", "B52"}, freg \in {"", "60-0001"}, fow \in {"", "USAF"}}

\* the payload adsbdb answers an evaluator's lookup with
lookupPayload ==
    [Aircraft |-> [Type |-> "B738", Registration |-> "N123AB", Owner |-> "Delta Air Lines",
                   AirlineFlag |-> "DAL", ThumbnailURL |-> "", FullImageURL |-> ""],
     Type_flat |-> "", Registration_flat |-> "", Owner_flat |-> ""]

\* http.Get and the decode succeed, or one of them returns an error
Lookups == {"ok", "err"}

\* http.Post gets a 2xx answer, or fails (transport error or non-2xx status)
Deliveries == {"ok", "failed"}

\* details, err := getAircraftDetails(hex): on an error the zero AircraftDetail
lookupDetails(hex, lk) ==
    IF lk = "err" THEN EmptyDetail
    ELSE IF variant = "multichannel" THEN getAircraftDetails(hex, lookupPayload)
    ELSE getAircraftDetailsNoDB(hex, lookupPayload)

\* mutant: a failed delivery is tried a second time
sendDiscordAlert_retry(kind, hex, details, outcome) ==
    IF outcome = "failed"
    THEN <<[kind |-> kind, hex |-> hex], [kind |-> kind, hex |-> hex]>>
    ELSE <<[kind |-> kind, hex |-> hex]>>

\* sendDiscordAlert: the POSTs it makes; the outcome is logged and dropped
sendDiscordAlert(kind, hex, details, outcome) ==
    <<[kind |-> kind, hex |-> hex]>>

\* mutant: the evaluator gives up when the lookup returns an error
dispatch_returnOnError(kind, hex, lk, outcome) ==
    IF lk = "err" THEN <<>>
    ELSE sendDiscordAlert(kind, hex, lookupDetails(hex, lk), outcome)

\* details, _ := getAircraftDetails(hex); sendDiscordAlert(..., details, kind, ...)
dispatch(kind, hex, lk, outcome) ==
    sendDiscordAlert(kind, hex, lookupDetails(hex, lk), outcome)

(***************************************************************************)
(* The poller goroutine: mainRadiusLoop, or mainLoop with                  *)
(* fetchAndProcessAircraft.                                                *)
(***************************************************************************)
\* http.Get, the status check, io.ReadAll and json.Unmarshal all succeed
FetchOk(n) ==
    /\ pc = "fetch"
    /\ pc' = "process"
    /\ remaining' = n
    /\ UNCHANGED <<variant, globalRadiusState, globalWatchlist, now>>
    /\ ev' = <<>>
    /\ alerts' = <<>>
    /\ UNCHANGED <<histVars, coordsVars, detailVars, wlVars, cacheVars, taskVars>>
    /\ overran' = FALSE
    /\ UNCHANGED reaps

\* mutant: the failure branch calls the reaper before it sleeps or returns
FetchFail_reaps ==
    /\ pc = "fetch"
    /\ pc' = IF variant = "multichannel" THEN "sleep" ELSE "wait"
    /\ globalRadiusState' = cleanupState(now)
    /\ UNCHANGED <<variant, globalWatchlist, now, remaining>>
    /\ ev' = <<>>
    /\ alerts' = <<>>
    /\ sent' = [h \in Hexes |-> IF h \in DOMAIN globalRadiusState' THEN sent[h] ELSE NoneSent]
    /\ UNCHANGED <<lastOutside, coordsVars, detailVars, wlVars, cacheVars, taskVars>>
    /\ overran' = FALSE
    /\ UNCHANGED reaps

\* one of them fails: mainRadiusLoop sleeps and retries, fetchAndProcessAircraft returns
FetchFail ==
    /\ pc = "fetch"
    /\ pc' = IF variant = "multichannel" THEN "sleep" ELSE "wait"
    /\ UNCHANGED <<variant, globalRadiusState, globalWatchlist, now, remaining>>
    /\ ev' = <<>>
    /\ alerts' = <<>>
    /\ UNCHANGED <<histVars, coordsVars, detailVars, wlVars, cacheVars, taskVars>>
    /\ overran' = FALSE
    /\ UNCHANGED reaps

\* time.Sleep(radiusPollInterval) returns; continue
SleepDone ==
    /\ pc = "sleep"
    /\ pc' = "fetch"
    /\ UNCHANGED <<variant, globalRadiusState, globalWatchlist, now, remaining>>
    /\ ev' = <<>>
    /\ alerts' = <<>>
    /\ UNCHANGED <<histVars, coordsVars, detailVars, wlVars, cacheVars, taskVars>>
    /\ reaps' = 0
    /\ UNCHANGED overran

\* the position the running program evaluates: the resolved pair in the
\* multi-channel program, the decoded lat/lon fields in the other
positionOf(ac) ==
    IF variant = "multichannel" THEN getActualCoords(ac)
    ELSE [lat |-> float64Field(ac.Lat), lon |-> float64Field(ac.Lon), hasCoords |-> TRUE]

\* a position within the radius with a numeric altitude in (0, ceiling]
insideZone(ac) ==
    LET c == positionOf(ac)
    IN  /\ c.hasCoords
        /\ haversine(c.lat, c.lon) <= proximityRadiusNM
        /\ ac.AltBaro.t = "float64"
        /\ ac.AltBaro.f > 0
        /\ ac.AltBaro.f <= proximityAltitudeFT

\* a position farther from the home point than the radius
outsideRadius(ac) ==
    LET c == positionOf(ac)
    IN  c.hasCoords /\ haversine(c.lat, c.lon) > proximityRadiusNM

posted(seq, kind) == \E i \in 1..Len(seq) : seq[i] = kind

bump(n) == IF n < MaxSent THEN n + 1 ELSE n

\* the evaluation of one aircraft of the batch
evaluate(ac, r) ==
    LET l == lookupState(ac.Hex)
        onWatchlist == ac.Hex \in DOMAIN globalWatchlist
    IN  /\ globalRadiusState' = putState(ac.Hex, r.state)
        /\ \E lk \in IF r.alerts = <<>> THEN {"none"} ELSE Lookups,
              dv \in IF r.alerts = <<>> THEN {"none"} ELSE Deliveries :
              /\ alerts' = IF r.alerts = <<>> THEN <<>>
                            ELSE dispatch(r.alerts[1], ac.Hex, lk, dv)
              /\ ev' = <<[ac |-> ac, seen |-> l.seen, onWatchlist |-> onWatchlist,
                           lookup |-> lk, delivery |-> dv,
                           details |-> IF lk = "none" THEN EmptyDetail
                                       ELSE lookupDetails(ac.Hex, lk)]>>
        /\ sent' = IF posted(r.alerts, "watchlist")
                   THEN [sent EXCEPT ![ac.Hex].watchlist = bump(@)]
                   ELSE IF posted(r.alerts, "military")
                   THEN [sent EXCEPT ![ac.Hex].military = bump(@)]
                   ELSE sent
        /\ lastOutside' = IF outsideRadius(ac) THEN lastOutside \cup {ac.Hex}
                          ELSE lastOutside \ {ac.Hex}

processRadiusAlerts(ac) ==
    /\ variant = "multichannel"
    /\ pc = "process"
    /\ remaining > 0
    /\ LET l == lookupState(ac.Hex)
           onWatchlist == ac.Hex \in DOMAIN globalWatchlist
       IN  evaluate(ac, evalRadius(ac, l.seen, l.currentState, onWatchlist, now))
    /\ remaining' = remaining - 1
    /\ UNCHANGED <<variant, globalWatchlist, now, pc>>
    /\ UNCHANGED <<coordsVars, detailVars, wlVars, cacheVars, taskVars>>
    /\ UNCHANGED cycleVars

processAircraftAlerts(ac) ==
    /\ variant = "nodb"
    /\ pc = "process"
    /\ remaining > 0
    /\ LET l == lookupState(ac.Hex)
           onWatchlist == ac.Hex \in DOMAIN globalWatchlist
       IN  evaluate(ac, evalAircraft(ac, l.seen, l.currentState, onWatchlist, now))
    /\ remaining' = remaining - 1
    /\ UNCHANGED <<variant, globalWatchlist, now, pc>>
    /\ UNCHANGED <<coordsVars, detailVars, wlVars, cacheVars, taskVars>>
    /\ UNCHANGED cycleVars

\* mutant: the reaper is called inside the loop over the batch
cleanupRadiusState_midBatch ==
    /\ pc = "process"
    /\ globalRadiusState' = cleanupState(now)
    /\ pc' = IF remaining = 0 THEN "wait" ELSE "process"
    /\ ev' = <<>>
    /\ alerts' = <<>>
    /\ UNCHANGED <<variant, globalWatchlist, now, remaining>>
    /\ sent' = [h \in Hexes |-> IF h \in DOMAIN globalRadiusState' THEN sent[h] ELSE NoneSent]
    /\ UNCHANGED <<lastOutside, coordsVars, detailVars, wlVars, cacheVars, taskVars>>
    /\ reaps' = reaps + 1
    /\ UNCHANGED overran

\* cleanupRadiusState() / cleanupOldState() after the batch, then <-ticker.C
cleanupRadiusState ==
    /\ pc = "process"
    /\ remaining = 0
    /\ globalRadiusState' = cleanupState(now)
    /\ pc' = "wait"
    /\ ev' = <<>>
    /\ alerts' = <<>>
    /\ UNCHANGED <<variant, globalWatchlist, now, remaining>>
    /\ sent' = [h \in Hexes |-> IF h \in DOMAIN globalRadiusState' THEN sent[h] ELSE NoneSent]
    /\ UNCHANGED <<lastOutside, coordsVars, detailVars, wlVars, cacheVars, taskVars>>
    /\ reaps' = reaps + 1
    /\ UNCHANGED overran

\* mutant: a tick starts the next cycle while the batch is still in process
TickerFires_reentrant ==
    /\ pc \in {"wait", "process"}
    /\ pc' = "fetch"
    /\ UNCHANGED <<variant, globalRadiusState, globalWatchlist, now, remaining>>
    /\ ev' = <<>>
    /\ alerts' = <<>>
    /\ UNCHANGED <<histVars, coordsVars, detailVars, wlVars, cacheVars, taskVars>>
    /\ reaps' = 0
    /\ UNCHANGED overran

\* <-ticker.C delivers a tick
TickerFires ==
    /\ pc = "wait"
    /\ pc' = "fetch"
    /\ UNCHANGED <<variant, globalRadiusState, globalWatchlist, now, remaining>>
    /\ ev' = <<>>
    /\ alerts' = <<>>
    /\ UNCHANGED <<histVars, coordsVars, detailVars, wlVars, cacheVars, taskVars>>
    /\ reaps' = 0
    /\ UNCHANGED overran

\* the manageWatchlist goroutine: loadWatchlistFromCSV runs to its swap (its steps
\* are taken one by one in SpecWatchlist)
loadWatchlistFromCSV(records) ==
    /\ ~readAll(records).err
    /\ globalWatchlist' = parseWatchlist(readAll(records).records)
    /\ globalWatchlist' # globalWatchlist
    /\ UNCHANGED <<variant, globalRadiusState, now, pc, remaining>>
    /\ ev' = <<>>
    /\ alerts' = <<>>
    /\ UNCHANGED <<histVars, coordsVars, detailVars, wlVars, cacheVars, taskVars>>
    /\ UNCHANGED cycleVars

\* time passes
ClockAdvance(d) ==
    /\ now + d <= MaxTime
    /\ now' = now + d
    /\ UNCHANGED <<variant, globalRadiusState, globalWatchlist, pc, remaining>>
    /\ ev' = <<>>
    /\ alerts' = <<>>
    /\ UNCHANGED <<histVars, coordsVars, detailVars, wlVars, cacheVars, taskVars>>
    /\ overran' = (overran \/ pc = "process")
    /\ UNCHANGED reaps

Init ==
    /\ variant \in {"multichannel", "nodb"}
    /\ globalRadiusState = [h \in {} |-> ZeroState]
    /\ globalWatchlist = parseWatchlist(<<>>)
    /\ now = 1
    /\ pc = "fetch"
    /\ remaining = 0
    /\ ev = <<>>
    /\ alerts = <<>>
    /\ sent = [h \in Hexes |-> NoneSent]
    /\ lastOutside = {}
    /\ coordsIn = <<>>
    /\ coordsOut = <<>>
    /\ apiResponse = <<>>
    /\ detail = <<>>
    /\ reaps = 0
    /\ overran = FALSE
    /\ watchlistIdle
    /\ cacheIdle
    /\ stepsIdle
    /\ nationwideIdle

Next ==
    \/ \E n \in 0..MaxBatch : FetchOk(n)
    \/ FetchFail
    \/ SleepDone
    \/ \E ac \in Aircraft : processRadiusAlerts(ac)
    \/ \E ac \in Aircraft : processAircraftAlerts(ac)
    \/ cleanupRadiusState
    \/ TickerFires
    \/ \E records \in CsvSources : loadWatchlistFromCSV(records)
    \/ \E d \in ClockSteps : ClockAdvance(d)

Spec == Init /\ [][Next]_vars

(***************************************************************************)
(* getActualCoords on its own: every combination of position fields.       *)
(***************************************************************************)
AnyCoords == {Nil, F(0), F(3578), F(-7850), S("36.00"), S("abc")}

CoordInputs ==
    {[Lat |-> a, Lon |-> b, LastPos |-> [Lat |-> c, Lon |-> d]] :
        a \in AnyCoords, b \in AnyCoords, c \in AnyCoords, d \in AnyCoords}

pollerIdle ==
    /\ globalRadiusState = [h \in {} |-> ZeroState]
    /\ globalWatchlist = parseWatchlist(<<>>)
    /\ now = 1
    /\ pc = "fetch"
    /\ remaining = 0
    /\ ev = <<>>
    /\ alerts = <<>>
    /\ sent = [h \in Hexes |-> NoneSent]
    /\ lastOutside = {}
    /\ reaps = 0
    /\ overran = FALSE
    /\ watchlistIdle
    /\ cacheIdle
    /\ stepsIdle
    /\ nationwideIdle

InitCoords ==
    /\ variant = "multichannel"
    /\ pollerIdle
    /\ coordsIn \in {<<ac>> : ac \in CoordInputs}
    /\ coordsOut = <<>>
    /\ apiResponse = <<>>
    /\ detail = <<>>

resolveCoords ==
    /\ coordsOut = <<>>
    /\ coordsOut' = <<getActualCoords(coordsIn[1])>>
    /\ UNCHANGED <<variant, globalRadiusState, globalWatchlist, now, pc, remaining, ev,
                   alerts, sent, lastOutside, coordsIn, apiResponse, detail,
                   reaps, overran, wlVars, cacheVars, taskVars>>

NextCoords == resolveCoords

SpecCoords == InitCoords /\ [][NextCoords]_vars

(***************************************************************************)
(* getAircraftDetails on its own: the mapping of a decoded adsbdb payload  *)
(* to an AircraftDetail, in each of the two programs.                      *)
(***************************************************************************)
InitDetails ==
    /\ variant \in {"multichannel", "nodb"}
    /\ pollerIdle
    /\ coordsIn = <<>>
    /\ coordsOut = <<>>
    /\ apiResponse \in {<<resp>> : resp \in Payloads}
    /\ detail = <<>>

normalizeDetails ==
    /\ detail = <<>>
    /\ detail' = <<IF variant = "multichannel"
                   THEN getAircraftDetails("ae01ce", apiResponse[1])
                   ELSE getAircraftDetailsNoDB("ae01ce", apiResponse[1])>>
    /\ UNCHANGED <<variant, globalRadiusState, globalWatchlist, now, pc, remaining, ev,
                   alerts, sent, lastOutside, coordsIn, coordsOut, apiResponse,
                   reaps, overran, wlVars, cacheVars, taskVars>>

NextDetails == normalizeDetails

SpecDetails == InitDetails /\ [][NextDetails]_vars

(***************************************************************************)
(* manageWatchlist step by step, beside an evaluator that looks an          *)
(* identifier up: the refresh builds newWatchlist, then swaps it in under   *)
(* watchlistMutex.Lock(); the lookup indexes globalWatchlist under RLock(). *)
(***************************************************************************)
csvRowFull2 == <<"a1b2c3", "N123AB", "Acme", "Citation", "C56X", "Civ", "Bizjet">>
csvHeaderShort == <<"$ICAO", "$Registration">>

\* the bodies served to the refresher: uniform, ragged, and too narrow throughout
WatchlistBodies ==
    CsvSources \cup {<<csvHeader, csvRowFull, csvRowFull2>>, <<csvHeaderShort, csvRowShort>>}

othersIdle == UNCHANGED <<pollerVars, coordsVars, detailVars, cacheVars, taskVars>>

\* resp, err := http.Get(watchlistCSVURL) is answered
wlGet(body) ==
    /\ wlpc = "tick"
    /\ wlpc' = "readall"
    /\ wlBody' = body
    /\ wlBefore' = globalWatchlist
    /\ UNCHANGED <<globalWatchlist, wlLocals, watchlistMutex, rdpc, observed>>
    /\ othersIdle

\* http.Get fails: return
wlGetFail ==
    /\ wlpc = "tick"
    /\ wlpc' = "returned"
    /\ wlBody' = <<>>
    /\ wlBefore' = globalWatchlist
    /\ UNCHANGED <<globalWatchlist, wlLocals, watchlistMutex, rdpc, observed>>
    /\ othersIdle

\* mutant: a body that cannot be read empties the live map
wlReadAll_clearsOnError ==
    /\ wlpc = "readall"
    /\ IF readAll(wlBody).err
       THEN /\ wlpc' = "returned"
            /\ globalWatchlist' = parseWatchlist(<<>>)
            /\ UNCHANGED wlLocals
       ELSE /\ wlpc' = "rows"
            /\ UNCHANGED globalWatchlist
            /\ wlLocals' = [records |-> readAll(wlBody).records,
                            newWatchlist |-> parseWatchlist(<<>>), i |-> 1]
    /\ UNCHANGED <<wlBody, wlBefore, watchlistMutex, rdpc, observed>>
    /\ othersIdle

\* records, err := reader.ReadAll(); if err != nil { return }
wlReadAll ==
    /\ wlpc = "readall"
    /\ IF readAll(wlBody).err
       THEN /\ wlpc' = "returned"
            /\ UNCHANGED wlLocals
       ELSE /\ wlpc' = "rows"
            /\ wlLocals' = [records |-> readAll(wlBody).records,
                            newWatchlist |-> parseWatchlist(<<>>), i |-> 1]
    /\ UNCHANGED <<globalWatchlist, wlBody, wlBefore, watchlistMutex, rdpc, observed>>
    /\ othersIdle

\* mutant: the rows are written into the live map as they are read
wlParseRow_inPlace ==
    /\ wlpc = "rows"
    /\ wlLocals.i <= Len(wlLocals.records)
    /\ wlLocals' = [wlLocals EXCEPT
                      !.newWatchlist = addRow(@, wlLocals.i, wlLocals.records[wlLocals.i]),
                      !.i = @ + 1]
    /\ globalWatchlist' = wlLocals'.newWatchlist
    /\ UNCHANGED <<wlpc, wlBody, wlBefore, watchlistMutex, rdpc, observed>>
    /\ othersIdle

\* one turn of the loop over records
wlParseRow ==
    /\ wlpc = "rows"
    /\ wlLocals.i <= Len(wlLocals.records)
    /\ wlLocals' = [wlLocals EXCEPT
                      !.newWatchlist = addRow(@, wlLocals.i, wlLocals.records[wlLocals.i]),
                      !.i = @ + 1]
    /\ UNCHANGED <<globalWatchlist, wlpc, wlBody, wlBefore, watchlistMutex, rdpc, observed>>
    /\ othersIdle

\* watchlistMutex.Lock() once the loop is over: waits for the readers to leave
wlLock ==
    /\ wlpc = "rows"
    /\ wlLocals.i > Len(wlLocals.records)
    /\ ~watchlistMutex.writer
    /\ watchlistMutex.readers = 0
    /\ watchlistMutex' = [watchlistMutex EXCEPT !.writer = TRUE]
    /\ wlpc' = "swap"
    /\ UNCHANGED <<globalWatchlist, wlBody, wlBefore, wlLocals, rdpc, observed>>
    /\ othersIdle

\* globalWatchlist = newWatchlist
wlSwap ==
    /\ wlpc = "swap"
    /\ globalWatchlist' = wlLocals.newWatchlist
    /\ wlpc' = "unlock"
    /\ UNCHANGED <<wlBody, wlBefore, wlLocals, watchlistMutex, rdpc, observed>>
    /\ othersIdle

\* watchlistMutex.Unlock(); loadWatchlistFromCSV returns
wlUnlock ==
    /\ wlpc = "unlock"
    /\ watchlistMutex' = [watchlistMutex EXCEPT !.writer = FALSE]
    /\ wlpc' = "returned"
    /\ wlLocals' = noLocals
    /\ UNCHANGED <<globalWatchlist, wlBody, wlBefore, rdpc, observed>>
    /\ othersIdle

\* for range ticker.C: the next refresh is due
wlTicker ==
    /\ wlpc = "returned"
    /\ wlpc' = "tick"
    /\ UNCHANGED <<globalWatchlist, wlBody, wlBefore, wlLocals, watchlistMutex, rdpc,
                   observed>>
    /\ othersIdle

\* watchlistMutex.RLock() in an evaluator: waits for the writer to leave
rdRLock ==
    /\ rdpc = "out"
    /\ ~watchlistMutex.writer
    /\ watchlistMutex' = [watchlistMutex EXCEPT !.readers = @ + 1]
    /\ rdpc' = "locked"
    /\ UNCHANGED <<globalWatchlist, wlpc, wlBody, wlBefore, wlLocals, observed>>
    /\ othersIdle

\* entry, onWatchlist := globalWatchlist[hex]
rdLookup ==
    /\ rdpc = "locked"
    /\ observed' = <<globalWatchlist>>
    /\ rdpc' = "looked"
    /\ UNCHANGED <<globalWatchlist, wlpc, wlBody, wlBefore, wlLocals, watchlistMutex>>
    /\ othersIdle

\* watchlistMutex.RUnlock()
rdRUnlock ==
    /\ rdpc = "looked"
    /\ watchlistMutex' = [watchlistMutex EXCEPT !.readers = @ - 1]
    /\ rdpc' = "out"
    /\ UNCHANGED <<globalWatchlist, wlpc, wlBody, wlBefore, wlLocals, observed>>
    /\ othersIdle

InitWatchlist ==
    /\ variant \in {"multichannel", "nodb"}
    /\ pollerIdle
    /\ coordsIn = <<>>
    /\ coordsOut = <<>>
    /\ apiResponse = <<>>
    /\ detail = <<>>

NextWatchlist ==
    \/ \E body \in WatchlistBodies : wlGet(body)
    \/ wlGetFail
    \/ wlReadAll
    \/ wlParseRow
    \/ wlLock
    \/ wlSwap
    \/ wlUnlock
    \/ wlTicker
    \/ rdRLock
    \/ rdLookup
    \/ rdRUnlock

SpecWatchlist == InitWatchlist /\ [][NextWatchlist]_vars

(***************************************************************************)
(* The enrichment cache with a persistent backing store (the               *)
(* aircraft_details table of setup.sql).  Neither program of main.go uses   *)
(* the table, so the lookaside steps follow section 4.4 of the              *)
(* specification; the remote answer is normalized by getAircraftDetails.    *)
(***************************************************************************)
\* what adsbdb may answer a cached lookup with
CachePayloads ==
    {lookupPayload,
     [Aircraft |-> [Type |-> "", Registration |-> "", Owner |-> "", AirlineFlag |-> "",
                    ThumbnailURL |-> "", FullImageURL |-> ""],
      Type_flat |-> "B52", Registration_flat |-> "60-0001", Owner_flat |-> "USAF"]}

upsert(store, hex, d) == [h \in DOMAIN store \cup {hex} |-> IF h = hex THEN d ELSE store[h]]

\* mutant: the remote is called, and its answer stored, on a hit as well
cachedLookup_alwaysRemote(store, calls, hex, answer) ==
    IF answer = <<>>
    THEN [detail |-> EmptyDetail, store |-> store, calls |-> calls + 1]
    ELSE [detail |-> getAircraftDetails(hex, answer[1]),
          store  |-> upsert(store, hex, getAircraftDetails(hex, answer[1])),
          calls  |-> calls + 1]

\* lookup(identifier): 1. on a hit return the stored record; 2. on a miss call
\* the remote; 3. normalize; 4. upsert the normalized record.  A failed remote
\* call (no answer) degrades to the empty record.
cachedLookup(store, calls, hex, answer) ==
    IF hex \in DOMAIN store
    THEN [detail |-> store[hex], store |-> store, calls |-> calls]
    ELSE IF answer = <<>>
    THEN [detail |-> EmptyDetail, store |-> store, calls |-> calls + 1]
    ELSE [detail |-> getAircraftDetails(hex, answer[1]),
          store  |-> upsert(store, hex, getAircraftDetails(hex, answer[1])),
          calls  |-> calls + 1]

\* one lookup; answer is what the remote would say if it were asked
lookupDetail(hex, answer) ==
    /\ lookups < MaxLookups
    /\ LET r == cachedLookup(detailStore, remoteCalls, hex, answer)
       IN  /\ detail' = <<r.detail>>
           /\ detailStore' = r.store
           /\ remoteCalls' = r.calls
           /\ apiResponse' = IF r.calls = remoteCalls THEN <<>> ELSE answer
    /\ lookedUp' = hex
    /\ lookups' = lookups + 1
    /\ UNCHANGED <<pollerVars, globalWatchlist, coordsVars, wlVars, taskVars>>

InitCache ==
    /\ variant = "multichannel"
    /\ pollerIdle
    /\ coordsIn = <<>>
    /\ coordsOut = <<>>
    /\ apiResponse = <<>>
    /\ detail = <<>>

NextCache ==
    \E hex \in Hexes, answer \in {<<>>} \cup {<<resp>> : resp \in CachePayloads} :
        lookupDetail(hex, answer)

SpecCache == InitCache /\ [][NextCache]_vars

(***************************************************************************)
(* The poller with the evaluator taken call by call: the read of the state *)
(* map and of the watchlist and the choice of the trigger, then, when the   *)
(* trigger fires, getAircraftDetails and sendDiscordAlert, then the write   *)
(* of the state map.  `failed` collects the failures of the cycle under way *)
(* and `trace` the calls of the evaluator call under way.                   *)
(***************************************************************************)
\* the goroutine that runs the poll loop, and the state map it evaluates against
poller == IF variant = "multichannel" THEN "mainRadiusLoop" ELSE "mainLoop"
stateMap == IF variant = "multichannel" THEN "globalRadiusState" ELSE "globalAircraftState"

\* the trigger branch the running program takes
decide(ac, seen, currentState, onWatchlist, t) ==
    IF variant = "multichannel"
    THEN evalRadius(ac, seen, currentState, onWatchlist, t)
    ELSE evalAircraft(ac, seen, currentState, onWatchlist, t)

\* what a step of the poller leaves alone
stepFrame ==
    UNCHANGED <<variant, globalWatchlist, now, ev, alerts, sent, lastOutside, reaps, overran,
                coordsVars, detailVars, wlVars, cacheVars, nwVars>>

\* http.Get, the status check, io.ReadAll and json.Unmarshal all succeed
pollFetchOk(n) ==
    /\ pc = "fetch"
    /\ pc' = "process"
    /\ remaining' = n
    /\ UNCHANGED <<globalRadiusState, stepVars, accessLog>>
    /\ stepFrame

\* mutant: the goroutine returns on a failure
pollFetchFail_exits ==
    /\ pc = "fetch"
    /\ pc' = "exited"
    /\ failed' = failed \cup {"fetch"}
    /\ UNCHANGED <<globalRadiusState, remaining, stpc, locals, trace, failedBefore, accessLog>>
    /\ stepFrame

\* one of them fails: time.Sleep(radiusPollInterval); continue / return
pollFetchFail ==
    /\ pc = "fetch"
    /\ pc' = IF variant = "multichannel" THEN "sleep" ELSE "wait"
    /\ failed' = failed \cup {"fetch"}
    /\ UNCHANGED <<globalRadiusState, remaining, stpc, locals, trace, failedBefore, accessLog>>
    /\ stepFrame

\* time.Sleep returns and the loop starts over
pollSleepDone ==
    /\ pc = "sleep"
    /\ pc' = "fetch"
    /\ failedBefore' = failed
    /\ failed' = {}
    /\ UNCHANGED <<globalRadiusState, remaining, stpc, locals, trace, accessLog>>
    /\ stepFrame

\* mutant: the details are fetched before the trigger is known to fire
evalBegin_lookupFirst(ac) ==
    /\ pc = "process"
    /\ remaining > 0
    /\ stpc = "idle"
    /\ LET l == lookupState(ac.Hex)
           onWatchlist == ac.Hex \in DOMAIN globalWatchlist
           r == decide(ac, l.seen, l.currentState, onWatchlist, now)
       IN  /\ locals' = <<[ac |-> ac, seen |-> l.seen, currentState |-> l.currentState,
                           onWatchlist |-> onWatchlist,
                           alertType |-> IF r.alerts = <<>> THEN "" ELSE r.alerts[1],
                           details |-> EmptyDetail]>>
           /\ stpc' = "lookup"
    /\ trace' = <<>>
    /\ accessLog' = accessLog \cup {<<poller, stateMap>>}
    /\ UNCHANGED <<globalRadiusState, pc, remaining, failed, failedBefore>>
    /\ stepFrame

\* processRadiusAlerts(ac) / processAircraftAlerts(ac) is entered: currentState, seen
\* := the state map at hex; entry, onWatchlist := globalWatchlist[hex]; the branch
\* of the first trigger that applies is taken
evalBegin(ac) ==
    /\ pc = "process"
    /\ remaining > 0
    /\ stpc = "idle"
    /\ LET l == lookupState(ac.Hex)
           onWatchlist == ac.Hex \in DOMAIN globalWatchlist
           r == decide(ac, l.seen, l.currentState, onWatchlist, now)
       IN  /\ locals' = <<[ac |-> ac, seen |-> l.seen, currentState |-> l.currentState,
                           onWatchlist |-> onWatchlist,
                           alertType |-> IF r.alerts = <<>> THEN "" ELSE r.alerts[1],
                           details |-> EmptyDetail]>>
           /\ stpc' = IF r.alerts = <<>> THEN "store" ELSE "lookup"
    /\ trace' = <<>>
    /\ accessLog' = accessLog \cup {<<poller, stateMap>>}
    /\ UNCHANGED <<globalRadiusState, pc, remaining, failed, failedBefore>>
    /\ stepFrame

\* details, err := getAircraftDetails(hex) returns
evalGetAircraftDetails(lk) ==
    /\ stpc = "lookup"
    /\ stpc' = "send"
    /\ locals' = <<[locals[1] EXCEPT !.details = lookupDetails(locals[1].ac.Hex, lk)]>>
    /\ trace' = Append(trace, "getAircraftDetails")
    /\ failed' = IF lk = "err" THEN failed \cup {"lookup"} ELSE failed
    /\ UNCHANGED <<globalRadiusState, pc, remaining, failedBefore, accessLog>>
    /\ stepFrame

\* sendDiscordAlert(..., ac, details, alertType, ...) returns
evalSendDiscordAlert(dv) ==
    /\ stpc = "send"
    /\ stpc' = "store"
    /\ LET posts == sendDiscordAlert(locals[1].alertType, locals[1].ac.Hex,
                                     locals[1].details, dv)
       IN  trace' = trace \o [i \in 1..Len(posts) |-> "sendDiscordAlert"]
    /\ failed' = IF dv = "failed" THEN failed \cup {"delivery"} ELSE failed
    /\ UNCHANGED <<globalRadiusState, pc, remaining, locals, failedBefore, accessLog>>
    /\ stepFrame

\* the latch, LastSquawk and LastSeen = time.Now() are set in currentState and
\* the state map at hex = currentState; the call returns
evalStore ==
    /\ stpc = "store"
    /\ stpc' = "idle"
    /\ LET e == locals[1]
       IN  globalRadiusState' =
              putState(e.ac.Hex,
                       decide(e.ac, e.seen, e.currentState, e.onWatchlist, now).state)
    /\ trace' = Append(trace, "store")
    /\ remaining' = remaining - 1
    /\ accessLog' = accessLog \cup {<<poller, stateMap>>}
    /\ UNCHANGED <<pc, locals, failed, failedBefore>>
    /\ stepFrame

\* cleanupRadiusState() / cleanupOldState() after the loop over the batch
pollCleanup ==
    /\ pc = "process"
    /\ remaining = 0
    /\ stpc = "idle"
    /\ globalRadiusState' = cleanupState(now)
    /\ pc' = "wait"
    /\ accessLog' = accessLog \cup {<<poller, stateMap>>}
    /\ UNCHANGED <<remaining, stepVars>>
    /\ stepFrame

\* <-ticker.C delivers a tick
pollTicker ==
    /\ pc = "wait"
    /\ pc' = "fetch"
    /\ failedBefore' = failed
    /\ failed' = {}
    /\ UNCHANGED <<globalRadiusState, remaining, stpc, locals, trace, accessLog>>
    /\ stepFrame

\* the aircraft of the batches: "ae01ce" squawking 7700, flagged military, plain
\* in the zone, and plain without a position
StepSightings == {s \in Sightings : s.AltBaro = F(150000) /\ s.LastPos = NoPos /\ s.Lat # F(3600)}

StepAircraft ==
    {mkAircraft("ae01ce", "7700", FALSE, g) : g \in {s \in StepSightings : s.Lat # Nil}}
    \cup {mkAircraft("ae01ce", "1200", TRUE, g) : g \in {s \in StepSightings : s.Lat # Nil}}
    \cup {mkAircraft("ae01ce", "1200", FALSE, g) : g \in StepSightings}

InitSteps ==
    /\ variant \in {"multichannel", "nodb"}
    /\ pollerIdle
    /\ coordsIn = <<>>
    /\ coordsOut = <<>>
    /\ apiResponse = <<>>
    /\ detail = <<>>

NextSteps ==
    \/ \E n \in 0..MaxBatch : pollFetchOk(n)
    \/ pollFetchFail
    \/ pollSleepDone
    \/ \E ac \in StepAircraft : evalBegin(ac)
    \/ \E lk \in Lookups : evalGetAircraftDetails(lk)
    \/ \E dv \in Deliveries : evalSendDiscordAlert(dv)
    \/ evalStore
    \/ pollCleanup
    \/ pollTicker
    \/ \E records \in CsvSources : loadWatchlistFromCSV(records)

SpecSteps == InitSteps /\ [][NextSteps]_vars

\* the goroutine keeps running, every HTTP call it makes returns (with an answer
\* or an error), time.Sleep returns and the ticker keeps ticking
LiveSteps ==
    /\ SpecSteps
    /\ WF_vars((\E n \in 0..MaxBatch : pollFetchOk(n)) \/ pollFetchFail)
    /\ WF_vars(pollSleepDone)
    /\ WF_vars(\E ac \in StepAircraft : evalBegin(ac))
    /\ WF_vars(\E lk \in Lookups : evalGetAircraftDetails(lk))
    /\ WF_vars(\E dv \in Deliveries : evalSendDiscordAlert(dv))
    /\ WF_vars(evalStore)
    /\ WF_vars(pollCleanup)
    /\ WF_vars(pollTicker)

(***************************************************************************)
(* mainNationwideLoop: for each of the special aircraft types the type feed *)
(* is fetched and each aircraft of the answer is alerted on at most once in *)
(* 24 hours.  Each Lock()/Unlock() pair of nationwideStateMutex brackets    *)
(* one operation on globalNationwideState and is taken with it in one step; *)
(* no other goroutine takes that mutex.                                     *)
(***************************************************************************)
\* 24 * time.Hour
alertInterval == 1440

\* the days by which the clock is seen to advance: 24 hours, and a minute more
DaySteps == {alertInterval, alertInterval + 1}

\* what a step of mainNationwideLoop leaves alone
nwFrame ==
    UNCHANGED <<variant, globalRadiusState, globalWatchlist, pc, remaining, ev, alerts, sent,
                lastOutside, reaps, overran, coordsVars, detailVars, wlVars, cacheVars,
                stepVars>>

\* the loop over specialAircraftTypes moves on: the next type, or <-ticker.C
nextType(l) ==
    IF l.acType < MaxTypes
    THEN [pc |-> "get", locals |-> [l EXCEPT !.acType = @ + 1, !.remaining = 0]]
    ELSE [pc |-> "wait", locals |-> [l EXCEPT !.remaining = 0]]

\* http.Get(apiURL) and the decode succeed: data.Aircraft holds n aircraft
nwGetOk(n) ==
    /\ nwpc = "get"
    /\ nwpc' = "batch"
    /\ nwLocals' = [nwLocals EXCEPT !.remaining = n]
    /\ UNCHANGED <<now, globalNationwideState, lastDispatch, accessLog>>
    /\ nwFrame

\* http.Get or the decode fails: continue with the next type
nwGetFail ==
    /\ nwpc = "get"
    /\ nwpc' = nextType(nwLocals).pc
    /\ nwLocals' = nextType(nwLocals).locals
    /\ UNCHANGED <<now, globalNationwideState, lastDispatch, accessLog>>
    /\ nwFrame

\* mutant: the aircraft is looked up in the state map of the radius poller
nwRead_radiusState(hex) ==
    /\ nwpc = "batch"
    /\ nwLocals.remaining > 0
    /\ nwpc' = "check"
    /\ nwLocals' = [nwLocals EXCEPT
                      !.hex = hex,
                      !.seen = hex \in DOMAIN globalRadiusState,
                      !.lastAlertTime = IF hex \in DOMAIN globalRadiusState
                                        THEN globalRadiusState[hex].LastSeen ELSE ZeroTime,
                      !.lookup = "", !.delivery = ""]
    /\ accessLog' = accessLog \cup {<<"mainNationwideLoop", "globalRadiusState">>}
    /\ UNCHANGED <<now, globalNationwideState, lastDispatch>>
    /\ nwFrame

\* lastAlertTime, seen := globalNationwideState[ac.Hex], under the mutex
nwRead(hex) ==
    /\ nwpc = "batch"
    /\ nwLocals.remaining > 0
    /\ nwpc' = "check"
    /\ nwLocals' = [nwLocals EXCEPT
                      !.hex = hex,
                      !.seen = hex \in DOMAIN globalNationwideState,
                      !.lastAlertTime = IF hex \in DOMAIN globalNationwideState
                                        THEN globalNationwideState[hex] ELSE ZeroTime,
                      !.lookup = "", !.delivery = ""]
    /\ accessLog' = accessLog \cup {<<"mainNationwideLoop", "globalNationwideState">>}
    /\ UNCHANGED <<now, globalNationwideState, lastDispatch>>
    /\ nwFrame

\* if !seen || time.Since(lastAlertTime) > (24*time.Hour)
nwCheck ==
    /\ nwpc = "check"
    /\ IF ~nwLocals.seen \/ now - nwLocals.lastAlertTime > alertInterval
       THEN /\ nwpc' = "lookup"
            /\ UNCHANGED nwLocals
       ELSE /\ nwpc' = "batch"
            /\ nwLocals' = [nwLocals EXCEPT !.remaining = @ - 1]
    /\ UNCHANGED <<now, globalNationwideState, lastDispatch, accessLog>>
    /\ nwFrame

\* details, err := getAircraftDetails(ac.Hex): an error is at most logged
nwGetAircraftDetails(lk) ==
    /\ nwpc = "lookup"
    /\ nwpc' = "send"
    /\ nwLocals' = [nwLocals EXCEPT !.lookup = lk]
    /\ UNCHANGED <<now, globalNationwideState, lastDispatch, accessLog>>
    /\ nwFrame

\* sendDiscordAlert(discordHookSpecialMil, ac, details, "special_military", nil)
nwSendDiscordAlert(dv) ==
    /\ nwpc = "send"
    /\ nwpc' = "record"
    /\ nwLocals' = [nwLocals EXCEPT !.delivery = dv]
    /\ LET posts == sendDiscordAlert("special_military", nwLocals.hex,
                                     lookupDetails(nwLocals.hex, nwLocals.lookup), dv)
       IN  lastDispatch' = IF posts = <<>> THEN lastDispatch
                           ELSE [lastDispatch EXCEPT ![nwLocals.hex] = now]
    /\ UNCHANGED <<now, globalNationwideState, accessLog>>
    /\ nwFrame

\* mutant: the alert time is recorded only when the delivery succeeded
nwRecord_onDelivered ==
    /\ nwpc = "record"
    /\ nwpc' = "batch"
    /\ globalNationwideState' =
          IF nwLocals.delivery = "ok"
          THEN [h \in DOMAIN globalNationwideState \cup {nwLocals.hex} |->
                   IF h = nwLocals.hex THEN now ELSE globalNationwideState[h]]
          ELSE globalNationwideState
    /\ nwLocals' = [nwLocals EXCEPT !.remaining = @ - 1]
    /\ accessLog' = accessLog \cup {<<"mainNationwideLoop", "globalNationwideState">>}
    /\ UNCHANGED <<now, lastDispatch>>
    /\ nwFrame

\* globalNationwideState[ac.Hex] = time.Now(), under the mutex
nwRecord ==
    /\ nwpc = "record"
    /\ nwpc' = "batch"
    /\ globalNationwideState' =
          [h \in DOMAIN globalNationwideState \cup {nwLocals.hex} |->
              IF h = nwLocals.hex THEN now ELSE globalNationwideState[h]]
    /\ nwLocals' = [nwLocals EXCEPT !.remaining = @ - 1]
    /\ accessLog' = accessLog \cup {<<"mainNationwideLoop", "globalNationwideState">>}
    /\ UNCHANGED <<now, lastDispatch>>
    /\ nwFrame

\* the loop over data.Aircraft is over: time.Sleep(5 * time.Second), next type
nwSleep ==
    /\ nwpc = "batch"
    /\ nwLocals.remaining = 0
    /\ nwpc' = nextType(nwLocals).pc
    /\ nwLocals' = nextType(nwLocals).locals
    /\ UNCHANGED <<now, globalNationwideState, lastDispatch, accessLog>>
    /\ nwFrame

\* <-ticker.C delivers a tick: the loop over the types starts again
nwTicker ==
    /\ nwpc = "wait"
    /\ nwpc' = "get"
    /\ nwLocals' = [nwLocals EXCEPT !.acType = 1]
    /\ UNCHANGED <<now, globalNationwideState, lastDispatch, accessLog>>
    /\ nwFrame

\* a day passes, wherever the goroutine stands
nwClockAdvance(d) ==
    /\ now + d <= MaxNationwideTime
    /\ now' = now + d
    /\ UNCHANGED <<nwVars, accessLog>>
    /\ nwFrame

InitNationwide ==
    /\ variant = "multichannel"
    /\ pollerIdle
    /\ coordsIn = <<>>
    /\ coordsOut = <<>>
    /\ apiResponse = <<>>
    /\ detail = <<>>

NextNationwide ==
    \/ \E n \in 0..MaxBatch : nwGetOk(n)
    \/ nwGetFail
    \/ \E hex \in Hexes : nwRead(hex)
    \/ nwCheck
    \/ \E lk \in Lookups : nwGetAircraftDetails(lk)
    \/ \E dv \in Deliveries : nwSendDiscordAlert(dv)
    \/ nwRecord
    \/ nwSleep
    \/ nwTicker
    \/ \E d \in DaySteps : nwClockAdvance(d)

SpecNationwide == InitNationwide /\ [][NextNationwide]_vars

(***************************************************************************)
(* The goroutines side by side, as main starts them: manageWatchlist and    *)
(* the poller in both programs, mainNationwideLoop in the multi-channel     *)
(* program only.  accessLog names, for every read and write of a state map, *)
(* the goroutine that made it.                                              *)
(***************************************************************************)
\* one aircraft whose trigger fires and one that matches no trigger
TaskAircraft ==
    {mkAircraft("ae01ce", "1200", TRUE, g) : g \in {s \in StepSightings : s.Lat # Nil}}
    \cup {mkAircraft("ae01ce", "1200", FALSE, g) : g \in {s \in StepSightings : s.Lat = Nil}}

TaskBatches == {0, 1}

InitTasks ==
    /\ variant \in {"multichannel", "nodb"}
    /\ pollerIdle
    /\ coordsIn = <<>>
    /\ coordsOut = <<>>
    /\ apiResponse = <<>>
    /\ detail = <<>>

NextTasks ==
    \/ \E records \in CsvSources : loadWatchlistFromCSV(records)
    \/ \E n \in TaskBatches : pollFetchOk(n)
    \/ pollFetchFail
    \/ pollSleepDone
    \/ \E ac \in TaskAircraft : evalBegin(ac)
    \/ \E lk \in Lookups : evalGetAircraftDetails(lk)
    \/ \E dv \in Deliveries : evalSendDiscordAlert(dv)
    \/ evalStore
    \/ pollCleanup
    \/ pollTicker
    \/ variant = "multichannel" /\ \E n \in TaskBatches : nwGetOk(n)
    \/ variant = "multichannel" /\ nwGetFail
    \/ variant = "multichannel" /\ nwRead("ae01ce")
    \/ variant = "multichannel" /\ nwCheck
    \/ variant = "multichannel" /\ \E lk \in Lookups : nwGetAircraftDetails(lk)
    \/ variant = "multichannel" /\ \E dv \in Deliveries : nwSendDiscordAlert(dv)
    \/ variant = "multichannel" /\ nwRecord
    \/ variant = "multichannel" /\ nwSleep
    \/ variant = "multichannel" /\ nwTicker

SpecTasks == InitTasks /\ [][NextTasks]_vars

(***************************************************************************)
(* The claims.                                                             *)
(***************************************************************************)
kinds(seq) == {seq[i].kind : i \in DOMAIN seq}

ReservedCodes == {"7500", "7600", "7700"}

\* the evaluator call that just returned
evaluated == ev # <<>>
evHex == ev[1].ac.Hex

\* C1: while an identifier's alert state lives (from its creation to its reaping),
\* at most one watchlist alert is posted for it; it is posted by the first
\* evaluation that finds the identifier on the watchlist, every later one posts
\* none, and the latch is set exactly when that alert has been posted.
C1_WatchlistAlertOncePerLifetime ==
    /\ \A h \in Hexes : sent[h].watchlist <= 1
    /\ \A h \in DOMAIN globalRadiusState :
          globalRadiusState[h].WatchlistAlerted <=> sent[h].watchlist = 1
    /\ (evaluated /\ ev[1].onWatchlist) =>
          /\ sent[evHex].watchlist = 1
          /\ ~ev[1].seen => alerts = <<[kind |-> "watchlist", hex |-> evHex]>>

\* C1 witness: a later poll of a watchlisted identifier whose alert was already posted
C1_Witness ==
    /\ evaluated
    /\ ev[1].onWatchlist
    /\ ev[1].seen
    /\ alerts = <<>>
    /\ sent[evHex].watchlist = 1

\* C2: the evaluation of a snapshot that is not on the watchlist and carries a
\* reserved emergency code posts an emergency alert if and only if no state
\* exists for the identifier or the recorded code differs from the snapshot's.
C2_EmergencyIffCodeChanged ==
    [][(ev' # <<>> /\ ~ev'[1].onWatchlist /\ ev'[1].ac.Squawk \in ReservedCodes) =>
          LET h == ev'[1].ac.Hex
          IN  ("emergency" \in kinds(alerts')) <=>
                 (h \notin DOMAIN globalRadiusState
                    \/ globalRadiusState[h].LastSquawk # ev'[1].ac.Squawk)]_vars

\* C2 witness: an emergency alert for 7600 on an identifier that already had a state
C2_Witness ==
    /\ evaluated
    /\ ~ev[1].onWatchlist
    /\ ev[1].seen
    /\ ev[1].ac.Squawk = "7600"
    /\ alerts = <<[kind |-> "emergency", hex |-> evHex]>>

\* C5: one evaluation posts at most one alert, and only of the kind of the first
\* trigger the snapshot matches in the order watchlist, emergency, special,
\* proximity, whether that trigger fires or is suppressed.
C5_FirstMatchWins ==
    evaluated =>
        /\ Len(alerts) <= 1
        /\ kinds(alerts) \subseteq
              (IF ev[1].onWatchlist THEN {"watchlist"}
               ELSE IF ev[1].ac.Squawk \in ReservedCodes THEN {"emergency"}
               ELSE IF ev[1].ac.Mil THEN {"military"}
               ELSE {"proximity"})

\* C5 witness: a watchlisted aircraft squawking 7700, its watchlist alert suppressed
C5_Witness ==
    /\ evaluated
    /\ ev[1].onWatchlist
    /\ ev[1].seen
    /\ ev[1].ac.Squawk = "7700"
    /\ alerts = <<>>

\* C6: after every evaluation the store holds, for the snapshot's identifier, the
\* snapshot's code as last observed code and the evaluation time as last seen.
C6_StateStamped ==
    evaluated =>
        /\ evHex \in DOMAIN globalRadiusState
        /\ globalRadiusState[evHex].LastSquawk = ev[1].ac.Squawk
        /\ globalRadiusState[evHex].LastSeen = now

\* C6 witness: an evaluation that matched no trigger and posted nothing
C6_Witness ==
    /\ evaluated
    /\ ~ev[1].onWatchlist
    /\ ev[1].ac.Squawk = "1200"
    /\ ~ev[1].ac.Mil
    /\ ~getActualCoords(ev[1].ac).hasCoords
    /\ alerts = <<>>
    /\ now > 1

\* C7: while an identifier's alert state lives, at most one special (military)
\* alert is posted for it and the latch is set exactly when it has been posted;
\* an evaluation whose applicable trigger is the special flag leaves the latch set
\* and posts the alert only if it had not been posted before.
C7_SpecialAlertOncePerLifetime ==
    /\ \A h \in Hexes : sent[h].military <= 1
    /\ \A h \in DOMAIN globalRadiusState :
          globalRadiusState[h].MilAlerted <=> sent[h].military = 1
    /\ (evaluated /\ ~ev[1].onWatchlist /\ ev[1].ac.Squawk \notin ReservedCodes /\ ev[1].ac.Mil) =>
          /\ sent[evHex].military = 1
          /\ globalRadiusState[evHex].MilAlerted
          /\ ~ev[1].seen => alerts = <<[kind |-> "military", hex |-> evHex]>>

\* C7 witness: a later poll of a military aircraft whose alert was already posted
C7_Witness ==
    /\ evaluated
    /\ ~ev[1].onWatchlist
    /\ ev[1].ac.Squawk \notin ReservedCodes
    /\ ev[1].ac.Mil
    /\ ev[1].seen
    /\ alerts = <<>>
    /\ sent[evHex].military = 1

proximityApplies(e) == ~e.onWatchlist /\ e.ac.Squawk \notin ReservedCodes /\ ~e.ac.Mil

olderThanTTL(st, t) == st.LastSeen < t - stateTTL

\* C3 as stated: whenever the latest poll of an identifier found it outside the
\* radius (whatever trigger branch that poll took) and this poll finds it inside
\* the zone with proximity as the applicable trigger, this poll posts a proximity
\* alert.
C3_AsStated ==
    [][(ev' # <<>> /\ ev'[1].ac.Hex \in lastOutside
          /\ insideZone(ev'[1].ac) /\ proximityApplies(ev'[1])) =>
          "proximity" \in kinds(alerts')]_vars

\* C4 as stated: an alert state older than the TTL is removed before its
\* identifier is next evaluated, so no evaluation finds such a state.
C4_AsStated ==
    [][ev' # <<>> =>
          LET h == ev'[1].ac.Hex
          IN  h \in DOMAIN globalRadiusState =>
                 ~olderThanTTL(globalRadiusState[h], now)]_vars

\* C4 amended: every run of the reaper removes the alert states that are older
\* than the TTL at that time, and the first evaluation of an identifier without a
\* state is treated as first-ever: the trigger it matches fires, and no latch is
\* set but by that alert.
C4_ReapThenFirstEver ==
    [][/\ (pc = "process" /\ pc' = "wait") =>
             \A h \in DOMAIN globalRadiusState :
                olderThanTTL(globalRadiusState[h], now) => h \notin DOMAIN globalRadiusState'
       /\ (ev' # <<>> /\ ev'[1].ac.Hex \notin DOMAIN globalRadiusState) =>
             LET e  == ev'[1]
                 st == globalRadiusState'[e.ac.Hex]
                 k  == kinds(alerts')
             IN  /\ ~e.seen
                 /\ e.onWatchlist => k = {"watchlist"}
                 /\ (~e.onWatchlist /\ e.ac.Squawk \in ReservedCodes) => k = {"emergency"}
                 /\ (~e.onWatchlist /\ e.ac.Squawk \notin ReservedCodes /\ e.ac.Mil) =>
                       k = {"military"}
                 /\ st.WatchlistAlerted => "watchlist" \in k
                 /\ st.MilAlerted => "military" \in k
                 /\ st.ProximityAlerted => "proximity" \in k]_vars

\* C4 witness: the reaper has run and an identifier sighted before has no state
C4_Witness ==
    /\ pc = "wait"
    /\ now > 1 + stateTTL
    /\ \E h \in lastOutside : h \notin DOMAIN globalRadiusState

\* C8 as stated: with proximity the applicable trigger and a position resolved,
\* inside the zone (within the radius, altitude a number in (0, ceiling]) the alert
\* is posted iff the latch was not set and the latch is set afterwards; anywhere
\* else nothing is posted and the latch is cleared.
C8_AsStated ==
    [][(ev' # <<>> /\ proximityApplies(ev'[1]) /\ positionOf(ev'[1].ac).hasCoords) =>
          LET h == ev'[1].ac.Hex
          IN  IF insideZone(ev'[1].ac)
              THEN /\ ("proximity" \in kinds(alerts')) <=>
                        (h \notin DOMAIN globalRadiusState
                           \/ ~globalRadiusState[h].ProximityAlerted)
                   /\ globalRadiusState'[h].ProximityAlerted
              ELSE /\ alerts' = <<>>
                   /\ ~globalRadiusState'[h].ProximityAlerted]_vars

\* C9: the resolver returns the primary pair with a fix when both of its
\* components are non-zero; otherwise the last-known pair with a fix when both of
\* its components are non-zero; and no fix when both pairs are (0, 0).
C9_CoordinateResolution ==
    coordsOut # <<>> =>
        LET lat1 == parseFloat(coordsIn[1].Lat)
            lon1 == parseFloat(coordsIn[1].Lon)
            lat2 == parseFloat(coordsIn[1].LastPos.Lat)
            lon2 == parseFloat(coordsIn[1].LastPos.Lon)
            out  == coordsOut[1]
        IN  /\ (lat1 # 0 /\ lon1 # 0) =>
                  out = [lat |-> lat1, lon |-> lon1, hasCoords |-> TRUE]
            /\ ((lat1 = 0 \/ lon1 = 0) /\ lat2 # 0 /\ lon2 # 0) =>
                  out = [lat |-> lat2, lon |-> lon2, hasCoords |-> TRUE]
            /\ (lat1 = 0 /\ lon1 = 0 /\ lat2 = 0 /\ lon2 = 0) => ~out.hasCoords

\* C9 witness: one primary component is zero and the last-known pair is returned
C9_Witness ==
    /\ coordsOut # <<>>
    /\ coordsIn[1].Lat = F(0)
    /\ coordsIn[1].Lon = F(-7850)
    /\ coordsOut[1] = [lat |-> 3600, lon |-> -7850, hasCoords |-> TRUE]

\* C10 as stated: a payload with a non-empty nested registration yields the nested
\* registration, type and owner; a payload with an empty nested registration
\* yields the flat registration, type and owner.
C10_AsStated ==
    detail # <<>> =>
        LET resp == apiResponse[1]
            d    == detail[1]
        IN  IF resp.Aircraft.Registration # ""
            THEN /\ d.Registration = resp.Aircraft.Registration
                 /\ d.AircraftType = resp.Aircraft.Type
                 /\ d.Owner = resp.Aircraft.Owner
            ELSE /\ d.Registration = resp.Registration_flat
                 /\ d.AircraftType = resp.Type_flat
                 /\ d.Owner = resp.Owner_flat

latchOf(st, kind) ==
    CASE kind = "watchlist" -> st.WatchlistAlerted
      [] kind = "military"  -> st.MilAlerted
      [] kind = "proximity" -> st.ProximityAlerted
      [] OTHER              -> TRUE

stampedBy(st, e, t) == st.LastSquawk = e.ac.Squawk /\ st.LastSeen = t

\* C12: when a trigger fires and the adsbdb lookup fails, the alert is still
\* posted, with the empty detail record, the trigger's latch is set and the state
\* is written with the snapshot's code and the evaluation time.
C12_LookupFailureStillAlerts ==
    (evaluated /\ ev[1].lookup = "err") =>
        /\ Len(alerts) = 1
        /\ alerts[1].hex = evHex
        /\ ev[1].details = EmptyDetail
        /\ latchOf(globalRadiusState[evHex], alerts[1].kind)
        /\ stampedBy(globalRadiusState[evHex], ev[1], now)

\* C12 witness: a proximity alert posted although the lookup failed
C12_Witness ==
    /\ evaluated
    /\ ev[1].lookup = "err"
    /\ alerts = <<[kind |-> "proximity", hex |-> evHex]>>
    /\ globalRadiusState[evHex].ProximityAlerted

\* C15: when a trigger fires and the delivery fails, exactly one POST has been
\* attempted, the trigger's latch is set and the state is written as on a
\* delivery that succeeds; and no POST is made outside an evaluator call, so
\* nothing is sent again later.
C15_DeliveryFailureIgnored ==
    /\ (evaluated /\ ev[1].delivery = "failed") =>
          /\ Len(alerts) = 1
          /\ latchOf(globalRadiusState[evHex], alerts[1].kind)
          /\ stampedBy(globalRadiusState[evHex], ev[1], now)
    /\ ~evaluated => alerts = <<>>

\* C15 witness: the watchlist latch is set after a watchlist alert whose delivery
\* failed
C15_Witness ==
    /\ evaluated
    /\ ev[1].delivery = "failed"
    /\ alerts = <<[kind |-> "watchlist", hex |-> evHex]>>
    /\ globalRadiusState[evHex].WatchlistAlerted

reaperRuns == reaps' # reaps /\ reaps' # 0

\* C16: the poller begins a cycle only from the end of its previous one (the
\* ticker wait after the reap, or the sleep after a failed fetch), a batch in
\* process is left only by the reap that follows its last evaluation and is never
\* restarted, and time passing - however long the cycle runs - starts nothing.
C16_CyclesInSequence ==
    [][/\ (pc # "fetch" /\ pc' = "fetch") => (pc \in {"wait", "sleep"} /\ remaining = 0)
       /\ (pc = "process" /\ pc' # "process") => (pc' = "wait" /\ remaining = 0)
       /\ (pc = "process" /\ pc' = "process") => remaining' <= remaining
       /\ (pc # "process" /\ pc' = "process") => pc = "fetch"
       /\ now' # now => (pc' = pc /\ remaining' = remaining)]_vars

\* C16 witness: the poller is back at the top of its loop after a cycle that
\* evaluated a batch, ran the reaper and lasted longer than the poll period
C16_Witness ==
    /\ pc = "fetch"
    /\ overran
    /\ reaps = 0
    /\ \E h \in DOMAIN globalRadiusState : globalRadiusState[h].LastSeen = now

\* C18: a run of the reaper removes exactly the alert states whose last-seen time
\* is more than the TTL before the time of the run, and leaves every other entry
\* exactly as it was.
C18_ReapRemovesExactlyStale ==
    [][reaperRuns =>
          /\ DOMAIN globalRadiusState' =
                {h \in DOMAIN globalRadiusState : ~olderThanTTL(globalRadiusState[h], now)}
          /\ \A h \in DOMAIN globalRadiusState' :
                globalRadiusState'[h] = globalRadiusState[h]]_vars

\* C18 witness: the reaper has removed one identifier's state and kept another,
\* latch included
C18_Witness ==
    /\ pc = "wait"
    /\ reaps = 1
    /\ "a1b2c3" \in lastOutside
    /\ "a1b2c3" \notin DOMAIN globalRadiusState
    /\ "ae01ce" \in DOMAIN globalRadiusState
    /\ globalRadiusState["ae01ce"].ProximityAlerted
    /\ globalRadiusState["ae01ce"].LastSeen = now

\* C19 as stated: every poll cycle, when it ends, has run the reaper exactly once.
C19_AsStated ==
    [][(pc # "fetch" /\ pc' = "fetch") => reaps = 1]_vars

\* C19 amended: the reaper runs exactly once in every poll cycle whose fetch and
\* decode succeed - after the last object of the batch has been evaluated, never
\* before or between evaluations - and not at all in a cycle whose fetch or decode
\* fails.
C19_ReapOncePerFetchedCycle ==
    [][/\ reaperRuns => (pc = "process" /\ remaining = 0 /\ reaps = 0 /\ pc' = "wait")
       /\ ev' # <<>> => (reaps = 0 /\ reaps' = 0)
       /\ (pc = "process" /\ pc' # "process") => reaps' = 1
       /\ (pc = "fetch" /\ pc' \notin {"fetch", "process"}) => reaps' = 0
       /\ (pc = "sleep" /\ pc' = "fetch") => reaps = 0
       /\ reaps' # reaps => (reaperRuns \/ pc' = "fetch")]_vars

\* C19 witness: a cycle has evaluated its batch and then run the reaper once
C19_Witness ==
    /\ pc = "wait"
    /\ reaps = 1
    /\ Cardinality(DOMAIN globalRadiusState) = 2
    /\ \A h \in DOMAIN globalRadiusState : globalRadiusState[h].LastSeen = now

\* the set a refresh from this body is to produce: an entry for the identifier of
\* every row after the header that has at least 7 columns
identifiersOfFullRows(body) == {body[i][1] : i \in {j \in 2..Len(body) : Len(body[j]) >= 7}}

\* the complete sets around the latest refresh: the one before it and, when the
\* body could be read, the one made from all of its rows
completeSets == {wlBefore} \cup (IF readAll(wlBody).err THEN {} ELSE {parseWatchlist(wlBody)})

\* C13: every lookup indexes a complete set - the one in place before the latest
\* refresh began or the one that refresh made from all its rows - never a set
\* holding only some of the rows.
C13_LookupSeesCompleteSet ==
    [][(observed' # observed /\ observed' # <<>>) => observed'[1] \in completeSets]_vars

\* C13 witness: a lookup made while the refresher, its new set built and different
\* from the old one, waits for the lock, has indexed the old set
C13_Witness ==
    /\ rdpc = "looked"
    /\ wlpc = "rows"
    /\ wlLocals.i > Len(wlLocals.records)
    /\ DOMAIN wlLocals.newWatchlist = {"a1b2c3", "ae01ce"}
    /\ observed = <<wlBefore>>
    /\ wlBefore # wlLocals.newWatchlist

\* C14 as stated: a refresh from a body with rows of fewer than 7 columns
\* completes, and the watchlist then holds exactly the identifiers of the rows
\* that have enough columns.
C14_AsStated ==
    (wlpc = "returned" /\ wlBody # <<>>
        /\ \E i \in 2..Len(wlBody) : Len(wlBody[i]) < 7) =>
            DOMAIN globalWatchlist = identifiersOfFullRows(wlBody)

\* C20: a lookup of an identifier the backing store holds returns the stored
\* record, calls the remote not at all and leaves the store as it is; a lookup of
\* an identifier it does not hold calls the remote once and, when the remote
\* answers, stores the normalized record it returns under the identifier.
C20_HitReturnsStoredRecord ==
    [][lookups' # lookups =>
          IF lookedUp' \in DOMAIN detailStore
          THEN /\ detail' = <<detailStore[lookedUp']>>
               /\ remoteCalls' = remoteCalls
               /\ detailStore' = detailStore
          ELSE /\ remoteCalls' = remoteCalls + 1
               /\ apiResponse' # <<>> =>
                     /\ detail' = <<getAircraftDetails(lookedUp', apiResponse'[1])>>
                     /\ lookedUp' \in DOMAIN detailStore'
                     /\ detailStore'[lookedUp'] = detail'[1]
                     /\ \A h \in DOMAIN detailStore : detailStore'[h] = detailStore[h]]_vars

\* C20 witness: three lookups of one identifier, the first a miss that stored the
\* record, the later ones hits that made no remote call
C20_Witness ==
    /\ lookups = 3
    /\ remoteCalls = 1
    /\ lookedUp = "ae01ce"
    /\ DOMAIN detailStore = {"ae01ce"}
    /\ detail = <<detailStore["ae01ce"]>>

\* a step of a poll cycle whose fetch, status check, body read or decode failed
inFailedCycle ==
    \/ pc = "fetch" /\ pc' \in {"sleep", "wait"}
    \/ pc = "sleep"
    \/ pc = "wait" /\ reaps = 0

\* C24: a poll cycle whose fetch, status check, body read or decode fails leaves
\* the alert state as it was: from the failure to the start of the next cycle no
\* aircraft is evaluated, no alert is posted, no entry changes and none is
\* removed (the reaper does not run).
C24_FailedFetchLeavesStore ==
    [][inFailedCycle =>
          /\ globalRadiusState' = globalRadiusState
          /\ ev' = <<>>
          /\ alerts' = <<>>
          /\ reaps' = 0]_vars

\* C24 witness: a fetch has failed and the store still holds a latched entry that
\* is older than the TTL
C24_Witness ==
    /\ pc \in {"sleep", "wait"}
    /\ reaps = 0
    /\ \E h \in DOMAIN globalRadiusState :
          /\ olderThanTTL(globalRadiusState[h], now)
          /\ globalRadiusState[h].WatchlistAlerted

proximityLatch(store, h) == h \in DOMAIN store /\ store[h].ProximityAlerted

\* C26: an evaluation with proximity the applicable trigger and no fix resolved
\* posts nothing and leaves the proximity latch cleared; the latch is set by
\* nothing but a proximity alert, so the next such evaluation that finds the
\* aircraft inside the zone meets a cleared latch and posts the proximity alert.
C26_NoFixClearsProximityLatch ==
    [][/\ (ev' # <<>> /\ proximityApplies(ev'[1]) /\ ~positionOf(ev'[1].ac).hasCoords) =>
             /\ alerts' = <<>>
             /\ ~proximityLatch(globalRadiusState', ev'[1].ac.Hex)
       /\ (ev' # <<>> /\ proximityApplies(ev'[1]) /\ insideZone(ev'[1].ac)
             /\ ~proximityLatch(globalRadiusState, ev'[1].ac.Hex)) =>
             /\ alerts' = <<[kind |-> "proximity", hex |-> ev'[1].ac.Hex]>>
             /\ proximityLatch(globalRadiusState', ev'[1].ac.Hex)
       /\ \A h \in Hexes :
             (proximityLatch(globalRadiusState', h) /\ ~proximityLatch(globalRadiusState, h)) =>
                alerts' = <<[kind |-> "proximity", hex |-> h]>>]_vars

\* C26 witness: an aircraft that already had a state was polled without a fix
\* under the proximity trigger; nothing was posted and its latch is clear
C26_Witness ==
    /\ evaluated
    /\ variant = "multichannel"
    /\ proximityApplies(ev[1])
    /\ ~positionOf(ev[1].ac).hasCoords
    /\ ev[1].seen
    /\ alerts = <<>>
    /\ ~globalRadiusState[evHex].ProximityAlerted

\* C27: every entry of the store has a non-zero last-seen time at all times, so
\* the reaper never replaces an entry by a fresh state; an entry that stays in the
\* store keeps its watchlist and military latches, which are cleared only by the
\* removal of the entry.
C27_NoZeroTimestamp ==
    /\ [](\A h \in DOMAIN globalRadiusState : globalRadiusState[h].LastSeen # ZeroTime)
    /\ [][\A h \in DOMAIN globalRadiusState \cap DOMAIN globalRadiusState' :
             /\ globalRadiusState[h].WatchlistAlerted => globalRadiusState'[h].WatchlistAlerted
             /\ globalRadiusState[h].MilAlerted => globalRadiusState'[h].MilAlerted
             /\ reaperRuns => globalRadiusState'[h] = globalRadiusState[h]]_vars

\* C27 witness: the reaper has run over an entry of an earlier cycle that is not yet
\* stale, and the entry still has its watchlist latch
C27_Witness ==
    /\ pc = "wait"
    /\ reaps = 1
    /\ \E h \in DOMAIN globalRadiusState :
          /\ globalRadiusState[h].LastSeen < now
          /\ ~isStale(globalRadiusState[h], now)
          /\ globalRadiusState[h].WatchlistAlerted

\* the latest refresh returned without a swap: the fetch or the read failed
refreshFailed == wlpc = "returned" /\ (wlBody = <<>> \/ readAll(wlBody).err)

\* C25: after a refresh whose fetch or parse failed the watchlist is the one in
\* place before that refresh and a lookup indexes that one; the watchlist changes
\* only in the swap of a refresh that read its whole body.
C25_FailedRefreshKeepsWatchlist ==
    /\ [](refreshFailed => globalWatchlist = wlBefore)
    /\ [][/\ (refreshFailed /\ rdpc = "locked" /\ rdpc' = "looked") => observed' = <<wlBefore>>
          /\ globalWatchlist' # globalWatchlist =>
                /\ wlpc = "swap"
                /\ ~readAll(wlBody).err
                /\ globalWatchlist' = parseWatchlist(wlBody)]_vars

\* C25 witness: a refresh failed on a body it could not read, and a lookup still
\* finds the entries loaded by an earlier refresh
C25_Witness ==
    /\ refreshFailed
    /\ readAll(wlBody).err
    /\ DOMAIN globalWatchlist # {}
    /\ rdpc = "looked"
    /\ observed = <<globalWatchlist>>

firedTrace == <<"getAircraftDetails", "sendDiscordAlert", "store">>

\* C23: an evaluation whose trigger fires calls the lookup once, then the
\* dispatch once, then writes the state; an evaluation that fires no alert calls
\* neither and only writes the state.
C23_LookupDispatchStore ==
    locals # <<>> =>
        LET fired == locals[1].alertType # ""
        IN  /\ stpc \in {"lookup", "send"} => fired
            /\ stpc = "lookup" => trace = <<>>
            /\ stpc = "send" => trace = SubSeq(firedTrace, 1, 1)
            /\ (stpc = "store" /\ fired) => trace = SubSeq(firedTrace, 1, 2)
            /\ (stpc = "store" /\ ~fired) => trace = <<>>
            /\ (stpc = "idle" /\ fired) => trace = firedTrace
            /\ (stpc = "idle" /\ ~fired) => trace = <<"store">>

\* C23 witness: an emergency alert has been looked up, posted and then recorded in
\* the state map, with the lookup and the delivery both failing
C23_Witness ==
    /\ stpc = "idle"
    /\ locals # <<>>
    /\ locals[1].alertType = "emergency"
    /\ trace = firedTrace
    /\ failed = {"lookup", "delivery"}
    /\ globalRadiusState[locals[1].ac.Hex].LastSquawk = "7700"

\* C22: whenever the fetch (or the decode), a lookup or a delivery has failed in
\* a poll cycle, the poller comes back to the top of its loop for the next cycle;
\* a cycle starts with no evaluation under way and no aircraft left over, and a
\* batch fetched in the cycle after a failure is evaluated to its end and reaped.
C22_PollerSurvivesFailure ==
    /\ ("fetch" \in failed) ~> (pc = "fetch" /\ "fetch" \in failedBefore)
    /\ ("lookup" \in failed) ~> (pc = "fetch" /\ "lookup" \in failedBefore)
    /\ ("delivery" \in failed) ~> (pc = "fetch" /\ "delivery" \in failedBefore)
    /\ (pc = "process" /\ failedBefore # {}) ~> (pc = "wait" /\ remaining = 0 /\ stpc = "idle")
    /\ [](pc = "fetch" => (stpc = "idle" /\ remaining = 0))

\* C22 witness: in the cycle after one whose lookup and delivery failed, an
\* aircraft has been evaluated and its alert looked up, posted and recorded
C22_Witness ==
    /\ pc = "process"
    /\ failedBefore = {"lookup", "delivery"}
    /\ failed = {}
    /\ stpc = "idle"
    /\ trace = firedTrace
    /\ remaining = 0

\* the time since the recorded alert of h is no more than 24 hours
alertedWithinDay(h) ==
    h \in DOMAIN globalNationwideState /\ now - globalNationwideState[h] <= alertInterval

\* C28: the nationwide poller goes on to alert on an identifier only if no alert
\* time is recorded for it or the recorded one is more than 24 hours old, and
\* skips it otherwise; every dispatch is followed by the recording of the time,
\* whatever the lookup and the delivery came to, and nothing else writes the map;
\* so more than 24 hours lie between two dispatches for one identifier.
C28_NationwideOncePerDay ==
    [][/\ (nwpc = "check" /\ nwpc' = "lookup") => ~alertedWithinDay(nwLocals.hex)
       /\ (nwpc = "check" /\ nwpc' = "batch") => alertedWithinDay(nwLocals.hex)
       /\ (nwpc = "send" /\ nwpc' # "send") =>
             (nwpc' = "record" /\ lastDispatch'[nwLocals.hex] = now)
       /\ (nwpc = "record" /\ nwpc' # "record") =>
             /\ nwLocals.hex \in DOMAIN globalNationwideState'
             /\ globalNationwideState'[nwLocals.hex] = now
       /\ globalNationwideState' # globalNationwideState => nwpc = "record"
       /\ \A h \in Hexes :
             lastDispatch'[h] # lastDispatch[h] =>
                (lastDispatch[h] = ZeroTime \/ lastDispatch'[h] - lastDispatch[h] > alertInterval)]_vars

\* C28 witness: a second alert for an identifier has been dispatched, more than a
\* day after the first, whose lookup and delivery had both failed
C28_Witness ==
    /\ nwpc = "record"
    /\ nwLocals.hex = "ae01ce"
    /\ nwLocals.seen
    /\ nwLocals.lastAlertTime = 1
    /\ lastDispatch["ae01ce"] = now
    /\ now > 1 + alertInterval
    /\ nwLocals.lookup = "err"
    /\ nwLocals.delivery = "failed"

\* the goroutines that have read or written the state map m
accessors(m) == {e[1] : e \in {x \in accessLog : x[2] = m}}

\* C21: every read and write of the poller's state map is made by the poller
\* goroutine and every one of globalNationwideState by mainNationwideLoop, so no
\* state map is touched by two goroutines; a step that changes one of the maps is
\* a step of its owner and of no other goroutine, and manageWatchlist touches
\* neither.
C21_StateMapsSingleOwner ==
    /\ [](/\ accessors(stateMap) \subseteq {poller}
          /\ accessors("globalNationwideState") \subseteq {"mainNationwideLoop"}
          /\ \A e \in accessLog : e[2] \in {stateMap, "globalNationwideState"})
    /\ [][/\ globalRadiusState' # globalRadiusState =>
                /\ (stpc' # stpc \/ pc' # pc)
                /\ UNCHANGED <<nwVars, globalWatchlist>>
                /\ <<poller, stateMap>> \in accessLog'
          /\ globalNationwideState' # globalNationwideState =>
                /\ nwpc' # nwpc
                /\ UNCHANGED <<pc, stpc, globalRadiusState, globalWatchlist>>
                /\ <<"mainNationwideLoop", "globalNationwideState">> \in accessLog'
          /\ globalWatchlist' # globalWatchlist =>
                UNCHANGED <<globalRadiusState, globalNationwideState, accessLog>>]_vars

\* C21 witness: the poller stands before its write of the state map while
\* mainNationwideLoop stands before its write of globalNationwideState and the
\* watchlist has been loaded; each map has been touched by its owner alone
C21_Witness ==
    /\ stpc = "store"
    /\ nwpc = "record"
    /\ DOMAIN globalWatchlist # {}
    /\ accessLog = {<<"mainRadiusLoop", "globalRadiusState">>,
                    <<"mainNationwideLoop", "globalNationwideState">>}
    /\ DOMAIN globalRadiusState # {}
    /\ lastDispatch["ae01ce"] = now
====
